---- MODULE Spec2Model ----
(***************************************************************************)
(* A model of the server-side Logger of @dreamer/logger (mod.ts):          *)
(*   - the global console redirection (redirectConsoleToLogger,            *)
(*     restoreConsole, getConsoleForOutput),                               *)
(*   - the dispatch pipeline of Logger.log / Logger.writeLog,              *)
(*   - the file output: initFileOutput, checkSizeRotation, rotateLog,      *)
(*     the time rotation timer and close().                                *)
(* Every `await` of the source that waits for the runtime (a stream write, *)
(* stat, rename, open, the writer's close, the custom sink's promise) is a *)
(* suspension point: the code up to it is one action, the runtime's        *)
(* completion together with the code that follows it is the next.          *)
(***************************************************************************)
EXTENDS Integers, Sequences, FiniteSets, TLC

VARIABLES
    \* ---- process-wide console state (redirection) ----
    console,          \* globalThis.console: method name -> installed function
    originalConsole,  \* _originalConsole: <<>> is null, <<c>> the captured methods
    rl,               \* the Loggers of the redirection scenario: level, console flag
    ops,              \* the last operations on the console (most recent last)
    last,             \* what the most recent console / logger call did
    pre,              \* the console methods installed when redirection last began
    redirArg,         \* the argument of the last redirect ("none": called without)
    \* ---- one Logger instance ----
    level,            \* config.level
    cfg,              \* the rest of the resolved configuration (fixed at construction)
    fileHandle,       \* this.fileHandle: 0 is undefined, else an index of handles
    fileWriter,       \* this.fileWriter: 0 is undefined, else an index of handles
    filePath,         \* this.filePath is set
    timerId,          \* this.timeRotationTimerId is set (the interval is running)
    logCount,         \* this.logCount
    \* ---- the runtime: file system and open files ----
    handles,          \* every file opened so far: inode, descriptor, stream state, queue
    inodes,           \* file contents: a sequence of lines (ids of the log calls)
    dir,              \* directory: 0 is <path>, i is <path>.i; value 0 is "no such file"
    \* ---- asynchronous tasks and what they produced ----
    tasks,            \* the constructor's open, log calls, timer callbacks, close()
    consoleOut,       \* lines written to the real console, in order
    customOut,        \* lines delivered to the custom sink, in order
    errs,             \* diagnostics written with getConsoleForOutput().error
    faults,           \* failures injected by the environment so far
    closeResolved,    \* the promise of close() has resolved
    rotations,        \* executions of rotateLog that went past its filePath guard
    crossings,        \* writes that took the active file from below maxSize to >= maxSize
    \* ---- Logger instances with their entries (tags, context, formats) ----
    instances,        \* the Loggers created so far: this.config and the file fields
    heap,             \* the tag arrays (config.tags is a reference to one of them)
    openFiles,        \* the files opened by the instances: path, descriptor open
    emitted,          \* the level-method calls so far, each with the lines it wrote
    lastCall,         \* what the most recent level-method call did
    \* ---- performance wrappers and console arguments ----
    wraps,            \* the calls of functions wrapped by Logger.performance
    lastPerf,         \* what the most recent performance operation did
    conv              \* the arguments of a redirected console call, converted

rvars == <<console, originalConsole, rl, ops, last, pre, redirArg>>

lvars == <<level, cfg, fileHandle, fileWriter, filePath, timerId, logCount,
           handles, inodes, dir, tasks, consoleOut, customOut, errs, faults,
           closeResolved, rotations, crossings>>

ivars == <<instances, heap, openFiles, emitted, lastCall>>

pvars == <<wraps, lastPerf, conv>>

vars == <<rvars, lvars, ivars, pvars>>

(***************************************************************************)
(* Levels                                                                  *)
(***************************************************************************)
Levels == {"debug", "info", "warn", "error", "fatal"}

LOG_LEVELS == [l \in Levels |->
    CASE l = "debug" -> 0 [] l = "info" -> 1 [] l = "warn" -> 2
      [] l = "error" -> 3 [] OTHER -> 4]

ShouldLogStrict(lv, min) == LOG_LEVELS[lv] > LOG_LEVELS[min]

\* Logger.shouldLog
ShouldLog(lv, min) == LOG_LEVELS[lv] >= LOG_LEVELS[min]

(***************************************************************************)
(* Console redirection                                                     *)
(***************************************************************************)
Methods == {"log", "info", "warn", "error", "debug"}

Loggers == {"default", "user"}

\* A console method is identified by what a call of it does: the runtime's
\* own writer, or a forwarder closure installed by redirectConsoleToLogger.
\* Function.prototype.bind keeps the call behaviour, so bind(f) is f here.
Native == [kind |-> "native", logger |-> "none", level |-> "none"]

Forwarder(l, lv) == [kind |-> "forward", logger |-> l, level |-> lv]

NativeConsole == [m \in Methods |-> Native]

\* The Logger method each forwarder calls: log, info -> info; the others
\* to the method of the same name.
ForwardLevel(m) == IF m = "log" THEN "info" ELSE m

\* Depth at which the engine's call stack is exhausted (RangeError).
StackLimit == 3

\* getConsoleForOutput
ConsoleForOutput ==
    IF originalConsole # <<>> THEN originalConsole[1] ELSE console

\* The synchronous part of Logger.log -> writeLog that matters to the
\* console: the level gate and the console branch, whose write goes to
\* getConsoleForOutput().log. A write that resolves to a forwarder calls a
\* Logger method again, from inside the first call.
RECURSIVE Enter(_, _, _)
Enter(l, lv, depth) ==
    IF depth > StackLimit
    THEN [calls |-> <<>>, writes |-> 0, overflow |-> TRUE]
    ELSE IF ~(ShouldLog(lv, rl[l].level) /\ rl[l].console)
    THEN [calls |-> <<<<l, lv>>>>, writes |-> 0, overflow |-> FALSE]
    ELSE LET target == ConsoleForOutput["log"] IN
         IF target.kind = "native"
         THEN [calls |-> <<<<l, lv>>>>, writes |-> 1, overflow |-> FALSE]
         ELSE LET r == Enter(target.logger, target.level, depth + 1) IN
              [calls |-> <<<<l, lv>>>> \o r.calls,
               writes |-> r.writes, overflow |-> r.overflow]

NoCall == [op |-> "none", method |-> "none", target |-> Native,
           calls |-> <<>>, writes |-> 0, overflow |-> FALSE]

Push(o) == IF Len(ops) < 3 THEN Append(ops, o) ELSE Append(Tail(ops), o)

\* The constructor's defaults (createLogger() is the default logger).
DefaultLogger == [level |-> "info", console |-> TRUE]

\* What redirectConsoleToLogger stores in _originalConsole: the methods
\* installed at the moment of the call, unconditionally.
Capture == <<console>>

\* redirectConsoleToLogger(targetLogger?): "none" is the call without argument.
Redirect(arg) ==
    LET log == IF arg = "none" THEN "default" ELSE arg IN
    /\ originalConsole' = Capture
    /\ console' = [m \in Methods |-> Forwarder(log, ForwardLevel(m))]
    /\ ops' = Push("redirect")
    /\ last' = [NoCall EXCEPT !.op = "redirect"]
    /\ pre' = IF originalConsole = <<>> THEN console ELSE pre
    /\ redirArg' = arg
    /\ UNCHANGED rl

\* restoreConsole (also the function redirectConsoleToLogger returns)
Restore ==
    /\ IF originalConsole # <<>>
       THEN /\ console' = originalConsole[1]
            /\ originalConsole' = <<>>
       ELSE UNCHANGED <<console, originalConsole>>
    /\ ops' = Push("restore")
    /\ last' = [NoCall EXCEPT !.op = "restore"]
    /\ UNCHANGED <<rl, pre, redirArg>>

\* The application calls globalThis.console.<m>(...)
ConsoleCall(m) ==
    LET f == console[m] IN
    /\ last' = IF f.kind = "native"
               THEN [op |-> "console", method |-> m, target |-> f,
                     calls |-> <<>>, writes |-> 1, overflow |-> FALSE]
               ELSE LET r == Enter(f.logger, f.level, 1) IN
                    [op |-> "console", method |-> m, target |-> f,
                     calls |-> r.calls, writes |-> r.writes,
                     overflow |-> r.overflow]
    /\ ops' = Push("console")
    /\ UNCHANGED <<console, originalConsole, rl, pre, redirArg>>

\* The application calls a Logger's level method directly.
LoggerCall(l, lv) ==
    LET r == Enter(l, lv, 1) IN
    /\ last' = [op |-> "logger", method |-> lv, target |-> Forwarder(l, lv),
                calls |-> r.calls, writes |-> r.writes, overflow |-> r.overflow]
    /\ ops' = Push("logger")
    /\ UNCHANGED <<console, originalConsole, rl, pre, redirArg>>

(***************************************************************************)
(* One Logger: configuration                                               *)
(***************************************************************************)
\* Bounds of the model.
MaxCalls == 2        \* log calls in the pipeline scenario
MaxFileCalls == 2    \* log calls in the file scenario
MaxTimerFires == 1   \* callbacks of the rotation timer
MaxFaults == 2       \* failures the environment injects
MaxFilesBound == 2   \* largest configured maxFiles
MaxSizeBound == 2    \* largest configured maxSize, in lines

Targets == {"console", "file", "custom"}

\* strategy "none" is an absent strategy (undefined).
Strategies == {"none", "size", "time", "size-time"}

\* strategy?.includes("time")
IncludesTime(strategy) == strategy \in {"time", "size-time"}

ChecksSizeAnyStrategy(strategy) == TRUE

\* strategy || "size", then strategy === "size" || strategy === "size-time"
ChecksSize(strategy) == strategy \in {"none", "size", "size-time"}

\* Logger.isAllowedLogPath: cfg.pathOk is "the path holds no '..'".
IsAllowedLogPath == cfg.pathOk

ReportNone(E, t, kind) == E

\* getConsoleForOutput().error(...) in a catch block (or before an early
\* return): the diagnostic `kind` about the work of task t.
Report(E, t, kind) == E \cup {<<t, kind>>}

NumTasks(kind) == Cardinality({t \in DOMAIN tasks : tasks[t].kind = kind})

NewTask(kind, lv) ==
    [kind |-> kind, pc |-> "done", level |-> lv, min |-> level,
     passed |-> FALSE, hadWriter |-> (kind = "log" /\ fileWriter # 0),
     late |-> closeResolved,
     att |-> {}, failed |-> {}, appended |-> 0, outcome |-> "returned",
     h |-> 0, w |-> 0, closer |-> FALSE, i |-> 0]

NewTaskInit ==
    [kind |-> "init", pc |-> "done", level |-> "none", min |-> "none",
     passed |-> FALSE, hadWriter |-> FALSE, late |-> FALSE,
     att |-> {}, failed |-> {}, appended |-> 0, outcome |-> "returned",
     h |-> 0, w |-> 0, closer |-> FALSE, i |-> 0]

CloseFd(H, h) == IF h = 0 THEN H ELSE [H EXCEPT ![h].fd = FALSE]

FirstRenameShort == IF cfg.maxFiles - 2 >= 1 THEN cfg.maxFiles - 2 ELSE 0

\* The index the shift loop of rotateLog starts with (maxFiles - 1), or 0,
\* the rename of the active file, when the loop is empty.
FirstRename == IF cfg.maxFiles - 1 >= 1 THEN cfg.maxFiles - 1 ELSE 0

(***************************************************************************)
(* Where a failure goes                                                    *)
(***************************************************************************)
CallerOutcomeSync(rejected) == IF rejected THEN "thrown" ELSE "returned"

\* Logger.log: writeLog is an async function, so whatever is thrown in it
\* rejects the promise it returns, and log attaches .catch to that promise.
CallerOutcome(rejected) == "returned"

TryCatchNone(throws) == IF throws THEN "propagate" ELSE "ok"

\* The try/catch around each target of writeLog.
TryCatch(throws) == IF throws THEN "caught" ELSE "ok"

\* shouldFilterByTags, as far as the custom predicate decides it:
\* cfg.filter is "none" (no filter), or what the predicate does.
FilterOutcome == IF cfg.filter = "none" THEN "pass" ELSE cfg.filter

\* shouldSample: Math.random() < rate, with the draw u/2 and the rate cfg.rate/2.
Sampled(u) == cfg.sampling = "none" \/ u < cfg.rate

(***************************************************************************)
(* The end of a step                                                       *)
(***************************************************************************)
\* The step ends at an await of the runtime.
Suspend(T, E, F) ==
    /\ F <= MaxFaults
    /\ tasks' = T
    /\ errs' = E
    /\ faults' = F
    /\ UNCHANGED customOut

\* writeLog, the custom branch: sf is what the sink does ("ok", "throw"
\* synchronously, or return a promise that will "reject").
CustomBranch(t, T, E, F, sf) ==
    IF ~cfg.custom
    THEN /\ sf = "ok"
         /\ Suspend([T EXCEPT ![t].pc = "done"], E, F)
    ELSE /\ F + (IF sf = "ok" THEN 0 ELSE 1) <= MaxFaults
         /\ faults' = F + (IF sf = "ok" THEN 0 ELSE 1)
         /\ tasks' = [T EXCEPT ![t].pc = IF sf = "reject" THEN "custom" ELSE "done",
                               ![t].att = @ \cup {"custom"},
                               ![t].failed = IF sf = "ok" THEN @ ELSE @ \cup {"custom"}]
         /\ errs' = IF TryCatch(sf = "throw") = "caught"
                    THEN Report(E, t, "custom") ELSE E
         /\ customOut' = IF sf = "ok" THEN Append(customOut, t) ELSE customOut

\* The file branch of writeLog is over (or rotateLog / initFileOutput
\* returns to its caller): a log call goes on to the custom branch, the
\* constructor's open and a timer callback end.
Return(t, T, E, F, sf) ==
    IF T[t].kind = "log"
    THEN CustomBranch(t, T, E, F, sf)
    ELSE /\ sf = "ok"
         /\ Suspend([T EXCEPT ![t].pc = "done"], E, F)

RotateLogNeverReturnsEarly == FALSE

\* rotateLog: if (!this.filePath) return;
RotateLogReturnsEarly == ~filePath

\* rotateLog up to its first await.
RotateBegin(t, T, E, F, sf) ==
    IF RotateLogReturnsEarly
    THEN /\ Return(t, T, E, F, sf)
         /\ UNCHANGED <<fileWriter, fileHandle, handles, rotations>>
    ELSE /\ sf = "ok"
         /\ rotations' = rotations + 1
         /\ IF fileWriter # 0
            THEN LET w == fileWriter
                     open == handles[w].wstate = "open" IN
                 \* await this.fileWriter.close(): a stream that is already
                 \* closing, closed or errored rejects the call.
                 /\ handles' = IF open THEN [handles EXCEPT ![w].wstate = "closing"]
                                ELSE handles
                 /\ Suspend([T EXCEPT ![t].pc = "closeWait", ![t].w = w,
                                      ![t].closer = open], E, F)
                 /\ UNCHANGED <<fileWriter, fileHandle>>
            ELSE /\ handles' = CloseFd(handles, fileHandle)
                 /\ fileHandle' = 0
                 /\ Suspend([T EXCEPT ![t].pc = "rename", ![t].i = FirstRename], E, F)
                 /\ UNCHANGED fileWriter

(***************************************************************************)
(* Actions of the application                                              *)
(***************************************************************************)
ConsoleLogFirst(out, t) == <<t>> \o out

\* getConsoleForOutput().log(message) in the console branch of writeLog,
\* which runs before the first await: the line is on the console when the
\* call returns.
ConsoleLog(out, t) == Append(out, t)

WriterWriteFirst(queue, t) == <<t>> \o queue

\* this.fileWriter.write(data): the chunk joins the queue of the stream,
\* which writes its chunks in the order they were given.
WriterWrite(queue, t) == Append(queue, t)

\* debug / info / warn / error / fatal -> log -> writeLog up to its first
\* await. cf: the console write throws; sf: what the custom sink does;
\* u: the draw of Math.random.
LogCall(lv, cf, sf, u) ==
    LET t == Len(tasks) + 1
        gate == ShouldLog(lv, level)
        fo == FilterOutcome
        reachesSampling == gate /\ fo = "pass"
        passed == reachesSampling /\ Sampled(u)
        T0 == Append(tasks, [NewTask("log", lv) EXCEPT !.passed = passed])
        conFails == passed /\ cfg.console /\ cf
        F1 == faults + (IF conFails THEN 1 ELSE 0)
        toFile == cfg.file /\ fileWriter # 0
    IN
    /\ cf => (passed /\ cfg.console)
    /\ (u # 0) => (reachesSampling /\ cfg.sampling # "none")
    /\ logCount' = IF reachesSampling /\ cfg.sampling # "none"
                   THEN logCount + 1 ELSE logCount
    /\ UNCHANGED <<rvars, ivars, pvars, level, cfg, fileHandle, fileWriter, filePath, timerId,
                   inodes, dir, closeResolved, rotations, crossings>>
    /\ IF ~passed
       THEN /\ sf = "ok"
            /\ UNCHANGED <<consoleOut, handles>>
            /\ IF gate /\ fo = "throw"
               THEN \* the predicate throws: the promise of writeLog rejects;
                    \* log has attached its handler and returns, the handler
                    \* runs in a later turn
                    Suspend([T0 EXCEPT ![t].pc = "rejected",
                                       ![t].failed = {"filter"},
                                       ![t].outcome = CallerOutcome(TRUE)],
                            errs, faults)
               ELSE Suspend(T0, errs, faults)
       ELSE LET conOutcome == IF cfg.console THEN TryCatch(cf) ELSE "ok"
                T1 == [T0 EXCEPT
                         ![t].pc = IF conOutcome = "propagate" THEN "rejected" ELSE @,
                         ![t].att = IF cfg.console THEN {"console"} ELSE {},
                         ![t].failed = IF conFails THEN {"console"} ELSE {},
                         ![t].outcome = CallerOutcome(conOutcome = "propagate")]
                E1 == IF conOutcome = "caught" THEN Report(errs, t, "console")
                      ELSE errs
            IN
            /\ consoleOut' = IF cfg.console /\ ~cf /\ ConsoleForOutput["log"].kind = "native"
                             THEN ConsoleLog(consoleOut, t) ELSE consoleOut
            /\ IF conOutcome = "propagate"
               THEN /\ sf = "ok"
                    /\ UNCHANGED handles
                    /\ Suspend(T1, E1, F1)
               ELSE IF toFile
               THEN \* await this.fileWriter.write(data)
                    LET h == fileWriter
                        open == handles[h].wstate = "open" IN
                    /\ sf = "ok"
                    /\ handles' = IF open THEN [handles EXCEPT ![h].queue = WriterWrite(@, t)]
                                   ELSE handles
                    /\ Suspend([T1 EXCEPT ![t].pc = "write",
                                          ![t].att = @ \cup {"file"},
                                          ![t].h = IF open THEN h ELSE 0], E1, F1)
               ELSE /\ UNCHANGED handles
                    /\ CustomBranch(t, T1, E1, F1, sf)

\* setLevel
SetLevel(lv) ==
    /\ lv # level
    /\ level' = lv
    /\ UNCHANGED <<rvars, ivars, pvars, cfg, fileHandle, fileWriter, filePath, timerId, logCount,
                   handles, inodes, dir, tasks, consoleOut, customOut, errs,
                   faults, closeResolved, rotations, crossings>>

ClearIntervalSkipped == timerId

\* close(): clearInterval(this.timeRotationTimerId) and the field is set to
\* undefined, when it is defined.
ClearInterval == FALSE

\* close() up to its first await
Close ==
    LET t == Len(tasks) + 1
        T0 == Append(tasks, NewTask("close", "none")) IN
    /\ NumTasks("close") = 0
    /\ timerId' = ClearInterval
    /\ UNCHANGED <<rvars, ivars, pvars, level, cfg, filePath, logCount, inodes, dir,
                   consoleOut, rotations, crossings>>
    /\ IF fileWriter # 0
       THEN LET w == fileWriter
                open == handles[w].wstate = "open" IN
            /\ handles' = IF open THEN [handles EXCEPT ![w].wstate = "closing"]
                           ELSE handles
            /\ Suspend([T0 EXCEPT ![t].pc = "closeWait", ![t].w = w,
                                  ![t].closer = open], errs, faults)
            /\ UNCHANGED <<fileWriter, fileHandle, closeResolved>>
       ELSE /\ handles' = CloseFd(handles, fileHandle)
            /\ fileHandle' = 0
            /\ closeResolved' = TRUE
            /\ Suspend(T0, errs, faults)
            /\ UNCHANGED fileWriter

\* The interval set by startTimeRotation fires.
TimerFire ==
    LET t == Len(tasks) + 1
        T0 == Append(tasks, NewTask("timer", "none")) IN
    /\ timerId
    /\ NumTasks("timer") < MaxTimerFires
    /\ UNCHANGED <<rvars, ivars, pvars, level, cfg, filePath, timerId, logCount, inodes, dir,
                   consoleOut, closeResolved, crossings>>
    /\ IF cfg.rotate /\ IncludesTime(cfg.strategy)
       THEN RotateBegin(t, T0, errs, faults, "ok")
       ELSE /\ Suspend(T0, errs, faults)
            /\ UNCHANGED <<fileWriter, fileHandle, handles, rotations>>

(***************************************************************************)
(* Completions by the runtime, each followed by the code that awaited it   *)
(***************************************************************************)
\* The stream of handle h writes the chunk at the head of its queue (ok),
\* or the write fails: injected, or because the descriptor was closed under
\* the stream, or because the stream has already failed.
WriteDone(h, ok, sf) ==
    /\ h \in DOMAIN handles
    /\ handles[h].queue # <<>>
    /\ LET t == Head(handles[h].queue)
           ino == handles[h].inode
           good == handles[h].fd /\ handles[h].wstate # "errored"
           before == Len(inodes[ino])
       IN
       /\ ok => good
       /\ UNCHANGED <<rvars, ivars, pvars, level, cfg, fileHandle, fileWriter, filePath, timerId,
                      logCount, dir, consoleOut, closeResolved, rotations>>
       /\ IF ok
          THEN /\ inodes' = [inodes EXCEPT ![ino] = Append(@, t)]
               /\ handles' = [handles EXCEPT ![h].queue = Tail(@)]
               /\ crossings' = IF dir[0] = ino /\ before < cfg.maxSize
                                  /\ before + 1 >= cfg.maxSize
                               THEN crossings + 1 ELSE crossings
               /\ LET T1 == [tasks EXCEPT ![t].appended = @ + 1] IN
                  IF cfg.rotate /\ ChecksSize(cfg.strategy) /\ cfg.file /\ filePath
                  THEN \* checkSizeRotation: await stat(this.filePath)
                       /\ sf = "ok"
                       /\ Suspend([T1 EXCEPT ![t].pc = "stat"], errs, faults)
                  ELSE CustomBranch(t, T1, errs, faults, sf)
          ELSE /\ UNCHANGED <<inodes, crossings>>
               /\ handles' = [handles EXCEPT ![h].queue = Tail(@),
                                             ![h].wstate = "errored"]
               /\ CustomBranch(t, [tasks EXCEPT ![t].failed = @ \cup {"write"}],
                               Report(errs, t, "file"),
                               faults + (IF good THEN 1 ELSE 0), sf)

\* write() on a stream that was not writable: the promise is rejected.
WriteRejected(t, sf) ==
    /\ t \in DOMAIN tasks
    /\ tasks[t].pc = "write"
    /\ tasks[t].h = 0
    /\ UNCHANGED <<rvars, ivars, pvars, level, cfg, fileHandle, fileWriter, filePath, timerId,
                   logCount, handles, inodes, dir, consoleOut, closeResolved,
                   rotations, crossings>>
    /\ CustomBranch(t, [tasks EXCEPT ![t].failed = @ \cup {"write"}],
                    Report(errs, t, "file"), faults, sf)

\* stat(this.filePath) completes; on size >= maxSize rotateLog starts.
StatDone(t, ok, sf) ==
    /\ t \in DOMAIN tasks
    /\ tasks[t].pc = "stat"
    /\ UNCHANGED <<rvars, ivars, pvars, level, cfg, filePath, timerId, logCount, inodes, dir,
                   consoleOut, closeResolved, crossings>>
    /\ IF ~ok \/ dir[0] = 0
       THEN /\ ok = (dir[0] = 0)
            /\ UNCHANGED <<fileWriter, fileHandle, handles, rotations>>
            /\ CustomBranch(t, [tasks EXCEPT ![t].failed = @ \cup {"stat"}],
                            Report(errs, t, "stat"),
                            faults + (IF ok THEN 0 ELSE 1), sf)
       ELSE IF Len(inodes[dir[0]]) >= cfg.maxSize
       THEN RotateBegin(t, tasks, errs, faults, sf)
       ELSE /\ UNCHANGED <<fileWriter, fileHandle, handles, rotations>>
            /\ CustomBranch(t, tasks, errs, faults, sf)

\* The close() of the writer settles: for the task that closed the stream,
\* when every queued chunk has been written; for a task whose call was
\* rejected, at once. rotateLog then drops writer and handle and starts to
\* rename; close() does the same and resolves.
WriterCloseSettled(t) ==
    /\ t \in DOMAIN tasks
    /\ tasks[t].pc = "closeWait"
    /\ LET w == tasks[t].w
           H1 == IF tasks[t].closer
                 THEN [handles EXCEPT ![w].fd = FALSE,
                                      ![w].wstate = IF @ = "closing" THEN "closed" ELSE @]
                 ELSE handles
       IN
       /\ tasks[t].closer => handles[w].queue = <<>>
       /\ handles' = CloseFd(H1, fileHandle)
       /\ fileWriter' = 0
       /\ fileHandle' = 0
       /\ IF tasks[t].kind = "close"
          THEN /\ closeResolved' = TRUE
               /\ Suspend([tasks EXCEPT ![t].pc = "done"], errs, faults)
          ELSE /\ UNCHANGED closeResolved
               /\ Suspend([tasks EXCEPT ![t].pc = "rename", ![t].i = FirstRename],
                          errs, faults)
    /\ UNCHANGED <<rvars, ivars, pvars, level, cfg, filePath, timerId, logCount, inodes, dir,
                   consoleOut, rotations, crossings>>

RotateCatchGivesUp == "done"

\* The catch block of rotateLog: after the diagnostic, await
\* this.initFileOutput(), the same await the try block ends with.
RotateCatch == "open"

\* A rename of rotateLog completes. i >= 1: <path>.i -> <path>.(i+1), whose
\* failure is ignored; i = 0: <path> -> <path>.1, whose failure is reported.
\* After the last one initFileOutput starts: await open.
RenameDone(t, ok) ==
    /\ t \in DOMAIN tasks
    /\ tasks[t].pc = "rename"
    /\ LET i == tasks[t].i
           exists == dir[i] # 0
           done == ok /\ exists
       IN
       /\ ok \/ exists
       /\ dir' = IF done THEN [dir EXCEPT ![i + 1] = dir[i], ![i] = 0] ELSE dir
       /\ IF i >= 1
          THEN Suspend([tasks EXCEPT ![t].i = i - 1], errs,
                       faults + (IF ok THEN 0 ELSE 1))
          ELSE Suspend([tasks EXCEPT ![t].pc = IF done THEN "open" ELSE RotateCatch,
                                     ![t].failed = IF done THEN @ ELSE @ \cup {"rotate"}],
                       IF done THEN errs ELSE Report(errs, t, "rotate"),
                       faults + (IF ok THEN 0 ELSE 1))
    /\ UNCHANGED <<rvars, ivars, pvars, level, cfg, fileHandle, fileWriter, filePath, timerId,
                   logCount, handles, inodes, consoleOut, closeResolved,
                   rotations, crossings>>

\* initFileOutput: mkdir and open complete (ok) or one of them fails.
OpenDone(t, ok, sf) ==
    /\ t \in DOMAIN tasks
    /\ tasks[t].pc = "open"
    /\ UNCHANGED <<rvars, ivars, pvars, level, cfg, timerId, logCount, consoleOut,
                   closeResolved, rotations, crossings>>
    /\ IF ok
       THEN LET ino == IF dir[0] # 0 THEN dir[0] ELSE Len(inodes) + 1 IN
            /\ inodes' = IF dir[0] # 0 THEN inodes ELSE Append(inodes, <<>>)
            /\ dir' = [dir EXCEPT ![0] = ino]
            /\ handles' = Append(handles, [inode |-> ino, fd |-> TRUE,
                                           wstate |-> "open", queue |-> <<>>])
            /\ fileHandle' = Len(handles) + 1
            /\ fileWriter' = Len(handles) + 1
            /\ filePath' = TRUE
            /\ Return(t, tasks, errs, faults, sf)
       ELSE /\ UNCHANGED <<inodes, dir, handles, fileHandle, fileWriter, filePath>>
            /\ Return(t, [tasks EXCEPT ![t].failed = @ \cup {"open"}],
                      Report(errs, t, "open"), faults + 1, sf)

\* The promise the custom sink returned rejects.
CustomRejected(t) ==
    /\ t \in DOMAIN tasks
    /\ tasks[t].pc = "custom"
    /\ Suspend([tasks EXCEPT ![t].pc = "done"], Report(errs, t, "custom"), faults)
    /\ UNCHANGED <<rvars, ivars, pvars, level, cfg, fileHandle, fileWriter, filePath, timerId,
                   logCount, handles, inodes, dir, consoleOut, closeResolved,
                   rotations, crossings>>

\* The handler log attached to the promise of writeLog, run once that
\* promise has rejected: getConsoleForOutput().error("writeLog error", err).
WriteLogCatch(t) ==
    /\ t \in DOMAIN tasks
    /\ tasks[t].pc = "rejected"
    /\ Suspend([tasks EXCEPT ![t].pc = "done"], Report(errs, t, "writeLog"), faults)
    /\ UNCHANGED <<rvars, ivars, pvars, level, cfg, fileHandle, fileWriter, filePath, timerId,
                   logCount, handles, inodes, dir, consoleOut, closeResolved,
                   rotations, crossings>>

(***************************************************************************)
(* Construction                                                            *)
(***************************************************************************)
SinkOutcomes == {"ok", "throw", "reject"}

Configs ==
    [console : BOOLEAN, file : BOOLEAN, custom : BOOLEAN,
     filter : {"none", "pass", "reject", "throw"},
     sampling : {"none", "rate"}, rate : 0..2,
     pathOk : BOOLEAN, rotate : BOOLEAN, strategy : Strategies,
     maxSize : 1..MaxSizeBound, maxFiles : 1..MaxFilesBound]

\* The state the constructor leaves: initFileOutput has been called and
\* waits for open (or has refused the path), the timer runs if configured.
Constructed(c, lv) ==
    /\ cfg = c
    /\ level = lv
    /\ fileHandle = 0 /\ fileWriter = 0 /\ filePath = FALSE
    /\ timerId = (c.file /\ c.rotate /\ IncludesTime(c.strategy))
    /\ logCount = 0
    /\ handles = <<>> /\ inodes = <<>>
    /\ dir = [i \in 0..MaxFilesBound |-> 0]
    /\ tasks = <<[NewTaskInit EXCEPT
                    !.pc = IF c.file /\ c.pathOk THEN "open" ELSE "done",
                    !.failed = IF c.file /\ ~c.pathOk THEN {"path"} ELSE {}]>>
    /\ consoleOut = <<>> /\ customOut = <<>>
    /\ errs = IF c.file /\ ~c.pathOk THEN {<<1, "path">>} ELSE {}
    /\ faults = 0
    /\ closeResolved = FALSE
    /\ rotations = 0
    /\ crossings = 0

NoEntryCall ==
    [op |-> "none", logger |-> 0, level |-> "none", message |-> <<>>,
     data |-> "undef", error |-> "undef", arg4 |-> <<>>, tag |-> "none",
     merged |-> <<>>, final |-> <<>>, gate |-> FALSE, filter |-> FALSE,
     sampled |-> FALSE, draw |-> 0, before |-> <<>>, lines |-> 0,
     custom |-> <<>>, set |-> <<>>]

\* No Logger instance of the entry scenarios exists.
InstancesIdle ==
    /\ instances = <<>>
    /\ heap = <<>>
    /\ openFiles = <<>>
    /\ emitted = <<>>
    /\ lastCall = NoEntryCall

\* The record of a performance operation: id is the id returned or given,
\* evicted the id the most recent eviction removed, before the tracker when
\* the operation began, calls the level-method calls made before it, n the
\* operations so far.
NoPerf ==
    [op |-> "none", logger |-> 0, id |-> 0, level |-> "none", evicted |-> <<>>,
     before |-> <<>>, hit |-> FALSE, wrap |-> 0, calls |-> 0, n |-> 0]

NoConv == [args |-> <<>>, applied |-> FALSE, message |-> <<>>, data |-> <<>>]

\* No wrapped function has been called, no console arguments converted.
WrappersIdle ==
    /\ wraps = <<>>
    /\ lastPerf = NoPerf
    /\ conv = NoConv

RedirectIdle ==
    /\ console = NativeConsole
    /\ originalConsole = <<>>
    /\ rl = [l \in Loggers |-> DefaultLogger]
    /\ ops = <<>>
    /\ last = NoCall
    /\ pre = NativeConsole
    /\ redirArg = "none"

\* The dispatch pipeline: every routing, filter and sampling; the file,
\* when configured, rotates by size at one line.
PipelineConfigs ==
    {c \in Configs :
        /\ c.pathOk /\ c.maxFiles = 1 /\ c.maxSize = 1
        /\ c.rotate = c.file
        /\ c.strategy = (IF c.file THEN "size" ELSE "none")
        /\ c.sampling = "none" => c.rate = 0
        /\ c.sampling = "rate" => c.rate = 1
        /\ c.filter \in {"none", "throw"}
        /\ (c.filter = "throw" \/ c.sampling = "rate") => ~c.file}

Init ==
    /\ RedirectIdle
    /\ InstancesIdle
    /\ WrappersIdle
    /\ \E c \in PipelineConfigs : Constructed(c, "info")

Runtime ==
    \/ \E h \in DOMAIN handles, ok \in BOOLEAN, sf \in SinkOutcomes : WriteDone(h, ok, sf)
    \/ \E t \in DOMAIN tasks, sf \in SinkOutcomes : WriteRejected(t, sf)
    \/ \E t \in DOMAIN tasks, ok \in BOOLEAN, sf \in SinkOutcomes : StatDone(t, ok, sf)
    \/ \E t \in DOMAIN tasks : WriterCloseSettled(t)
    \/ \E t \in DOMAIN tasks, ok \in BOOLEAN : RenameDone(t, ok)
    \/ \E t \in DOMAIN tasks, ok \in BOOLEAN, sf \in SinkOutcomes : OpenDone(t, ok, sf)
    \/ \E t \in DOMAIN tasks : CustomRejected(t)
    \/ \E t \in DOMAIN tasks : WriteLogCatch(t)

\* The pipeline under failures: calls below and above the minimum level.
Next ==
    \/ Runtime
    \/ \E lv \in {"debug", "warn"}, cf \in BOOLEAN, sf \in SinkOutcomes, u \in 0..1 :
          NumTasks("log") < MaxCalls /\ LogCall(lv, cf, sf, u)

Spec == Init /\ [][Next]_vars

\* The level gate: every level, setLevel between the calls, no failures.
GateConfigs ==
    {c \in Configs :
        /\ c.pathOk /\ c.maxFiles = 1 /\ c.maxSize = 1
        /\ ~c.rotate /\ c.strategy = "none"
        /\ c.sampling = "none" /\ c.rate = 0 /\ c.filter = "none"}

InitGate ==
    /\ RedirectIdle
    /\ InstancesIdle
    /\ WrappersIdle
    /\ \E c \in GateConfigs, lv \in Levels : Constructed(c, lv)

NextGate ==
    \/ \E h \in DOMAIN handles : WriteDone(h, TRUE, "ok")
    \/ \E t \in DOMAIN tasks : OpenDone(t, TRUE, "ok")
    \/ \E lv \in Levels : NumTasks("log") < MaxCalls /\ LogCall(lv, FALSE, "ok", 0)
    \/ \E lv \in Levels : SetLevel(lv)

SpecGate == InitGate /\ [][NextGate]_vars

\* The file output: rotation by size and by time, concurrent log calls,
\* the timer and close(); console and custom sink are off, and the runtime
\* fails only where the Logger itself made it fail (a closed descriptor, a
\* stream that is no longer writable, a file that was renamed away).
FileConfigs ==
    {c \in Configs :
        /\ c.file /\ ~c.console /\ ~c.custom /\ c.pathOk
        /\ c.sampling = "none" /\ c.rate = 0 /\ c.filter = "none"
        /\ c.rotate => c.strategy = "size-time"
        /\ ~c.rotate => (c.strategy = "none" /\ c.maxSize = 1 /\ c.maxFiles = 1)}

InitFile ==
    /\ RedirectIdle
    /\ InstancesIdle
    /\ WrappersIdle
    /\ \E c \in FileConfigs : Constructed(c, "info")

NextFile ==
    \/ \E h \in DOMAIN handles, ok \in BOOLEAN :
          (ok = (handles[h].fd /\ handles[h].wstate # "errored")) /\ WriteDone(h, ok, "ok")
    \/ \E t \in DOMAIN tasks : WriteRejected(t, "ok")
    \/ \E t \in DOMAIN tasks : StatDone(t, TRUE, "ok")
    \/ \E t \in DOMAIN tasks : WriterCloseSettled(t)
    \/ \E t \in DOMAIN tasks : RenameDone(t, TRUE)
    \/ \E t \in DOMAIN tasks : OpenDone(t, TRUE, "ok")
    \/ NumTasks("log") < MaxFileCalls /\ LogCall("info", FALSE, "ok", 0)
    \/ TimerFire
    \/ Close

SpecFile == InitFile /\ [][NextFile]_vars

\* The file output when an open can fail: rotation by size and time at
\* one line, with and without the console.
RetryConfigs ==
    {c \in Configs :
        /\ c.file /\ c.pathOk /\ ~c.custom
        /\ c.rotate /\ c.strategy = "size-time"
        /\ c.maxSize = 1 /\ c.maxFiles = 1
        /\ c.sampling = "none" /\ c.rate = 0 /\ c.filter = "none"}

InitRetry ==
    /\ RedirectIdle
    /\ InstancesIdle
    /\ WrappersIdle
    /\ \E c \in RetryConfigs : Constructed(c, "info")

NextRetry ==
    \/ \E h \in DOMAIN handles, ok \in BOOLEAN :
          (ok = (handles[h].fd /\ handles[h].wstate # "errored")) /\ WriteDone(h, ok, "ok")
    \/ \E t \in DOMAIN tasks : WriteRejected(t, "ok")
    \/ \E t \in DOMAIN tasks : StatDone(t, TRUE, "ok")
    \/ \E t \in DOMAIN tasks : WriterCloseSettled(t)
    \/ \E t \in DOMAIN tasks : RenameDone(t, TRUE)
    \/ \E t \in DOMAIN tasks, ok \in BOOLEAN : OpenDone(t, ok, "ok")
    \/ NumTasks("log") < MaxFileCalls /\ LogCall("info", FALSE, "ok", 0)
    \/ TimerFire

SpecRetry == InitRetry /\ [][NextRetry]_vars

\* The file output under every strategy, rotation enabled or not, with a
\* limit of one and of two lines.
StrategyConfigs ==
    {c \in Configs :
        /\ c.file /\ c.pathOk /\ ~c.console /\ ~c.custom
        /\ c.maxFiles = 1
        /\ c.sampling = "none" /\ c.rate = 0 /\ c.filter = "none"}

InitStrategy ==
    /\ RedirectIdle
    /\ InstancesIdle
    /\ WrappersIdle
    /\ \E c \in StrategyConfigs : Constructed(c, "info")

SpecStrategy == InitStrategy /\ [][NextFile]_vars

\* redirectConsoleToLogger() has been called once, before the Logger was
\* constructed.
RedirectedOnce ==
    /\ console = [m \in Methods |-> Forwarder("default", ForwardLevel(m))]
    /\ originalConsole = <<NativeConsole>>
    /\ rl = [l \in Loggers |-> DefaultLogger]
    /\ ops = <<"redirect">>
    /\ last = [NoCall EXCEPT !.op = "redirect"]
    /\ pre = NativeConsole
    /\ redirArg = "none"

\* File output with rotation by size and time at one line, on a path that
\* is refused (with every routing of console and custom sink) or accepted.
PathConfigs ==
    {c \in Configs :
        /\ c.file /\ c.rotate /\ c.strategy = "size-time"
        /\ c.maxSize = 1 /\ c.maxFiles = 1
        /\ c.sampling = "none" /\ c.rate = 0 /\ c.filter = "none"
        /\ c.pathOk => (~c.console /\ ~c.custom)}

InitPath ==
    /\ RedirectIdle \/ RedirectedOnce
    /\ InstancesIdle
    /\ WrappersIdle
    /\ \E c \in PathConfigs : Constructed(c, "info")

SpecPath == InitPath /\ [][NextFile]_vars

\* A rotateLog is between its first await and the end of its reopening.
Rotating ==
    \E t \in DOMAIN tasks :
        tasks[t].kind # "init" /\ tasks[t].pc \in {"closeWait", "rename", "open"}

\* The size check would start rotateLog now.
StatWouldRotate ==
    dir[0] # 0 /\ Len(inodes[dir[0]]) >= cfg.maxSize

\* The file output with rotations that run one at a time: no second
\* rotateLog (from the size check or from the timer) starts while one is in
\* progress; close() is not called.
NextSeq ==
    \/ \E h \in DOMAIN handles, ok \in BOOLEAN :
          (ok = (handles[h].fd /\ handles[h].wstate # "errored")) /\ WriteDone(h, ok, "ok")
    \/ \E t \in DOMAIN tasks : WriteRejected(t, "ok")
    \/ \E t \in DOMAIN tasks :
          (Rotating => ~StatWouldRotate) /\ StatDone(t, TRUE, "ok")
    \/ \E t \in DOMAIN tasks : WriterCloseSettled(t)
    \/ \E t \in DOMAIN tasks : RenameDone(t, TRUE)
    \/ \E t \in DOMAIN tasks : OpenDone(t, TRUE, "ok")
    \/ NumTasks("log") < MaxFileCalls /\ LogCall("info", FALSE, "ok", 0)
    \/ ~Rotating /\ TimerFire

SpecSeq == InitFile /\ [][NextSeq]_vars

LoggerIdle ==
    Constructed([console |-> TRUE, file |-> FALSE, custom |-> FALSE,
                 filter |-> "none", sampling |-> "none", rate |-> 0,
                 pathOk |-> TRUE, rotate |-> FALSE, strategy |-> "none",
                 maxSize |-> 1, maxFiles |-> 1], "info")

InitRedirect ==
    /\ console = NativeConsole
    /\ originalConsole = <<>>
    /\ rl \in [Loggers -> [level : Levels, console : BOOLEAN]]
    /\ rl["default"] = DefaultLogger
    /\ ops = <<>>
    /\ last = NoCall
    /\ pre = NativeConsole
    /\ redirArg = "none"
    /\ LoggerIdle
    /\ InstancesIdle
    /\ WrappersIdle

NextRedirect ==
    \/ \E a \in Loggers \cup {"none"} : Redirect(a) /\ UNCHANGED <<lvars, ivars, pvars>>
    \/ Restore /\ UNCHANGED <<lvars, ivars, pvars>>
    \/ \E m \in Methods : ConsoleCall(m) /\ UNCHANGED <<lvars, ivars, pvars>>
    \/ \E l \in Loggers, lv \in Levels : LoggerCall(l, lv) /\ UNCHANGED <<lvars, ivars, pvars>>

SpecRedirect == InitRedirect /\ [][NextRedirect]_vars

(***************************************************************************)
(* Entries: what a log line is made of                                     *)
(* A string is a sequence of tokens (characters of the message, labels,    *)
(* ANSI codes, serialized values); concatenation is \o.                    *)
(***************************************************************************)
DEFAULT_MAX_MESSAGE_LENGTH == 32768

MaxMsgLen == 3       \* longest message of a call, in characters

\* The messages of the calls: "", "1", "12", "123", ...
Messages == {[k \in 1..n |-> ToString(k)] : n \in 0..MaxMsgLen}

Range(q) == {q[k] : k \in DOMAIN q}

\* ANSI_COLORS
ANSI_COLORS ==
    [reset |-> "ESC[0m", bold |-> "ESC[1m", red |-> "ESC[31m",
     yellow |-> "ESC[33m", blue |-> "ESC[34m", gray |-> "ESC[90m"]

AnsiCodes == {ANSI_COLORS[c] : c \in DOMAIN ANSI_COLORS}

\* getLevelColor
GetLevelColor(lv, useColor) ==
    IF ~useColor THEN <<>>
    ELSE CASE lv = "debug" -> <<ANSI_COLORS.gray>>
           [] lv = "info" -> <<ANSI_COLORS.blue>>
           [] lv = "warn" -> <<ANSI_COLORS.yellow>>
           [] lv = "error" -> <<ANSI_COLORS.red>>
           [] lv = "fatal" -> <<ANSI_COLORS.red, ANSI_COLORS.bold>>
           [] OTHER -> <<>>

LevelAsIs(lv) == lv

\* level.toUpperCase()
ToUpperCase(lv) ==
    CASE lv = "debug" -> "DEBUG" [] lv = "info" -> "INFO" [] lv = "warn" -> "WARN"
      [] lv = "error" -> "ERROR" [] OTHER -> "FATAL"

\* safeStringify of a data value: undefined, the object {code: 1}, or the
\* data endPerformance builds ({duration, startTime, endTime})
StringifyData(d) ==
    CASE d = "code1" -> <<"{", "\"code\":", "1", "}">>
      [] d = "perf" -> <<"{", "\"duration\":", "D", "\"startTime\":", "T0",
                         "\"endTime\":", "T1", "}">>
      [] OTHER -> <<>>

\* A context object is the sequence of its keys in insertion order, each
\* with its value.
RECURSIVE StringifyPairs(_)
StringifyPairs(c) ==
    IF c = <<>> THEN <<>>
    ELSE <<"\"" \o c[1].k \o "\":", ToString(c[1].v)>> \o StringifyPairs(Tail(c))

\* safeStringify of a context object
StringifyContext(c) == <<"{">> \o StringifyPairs(c) \o <<"}">>

RECURSIVE Join(_)
\* tags.join(", ")
Join(tags) ==
    IF tags = <<>> THEN <<>>
    ELSE IF Len(tags) = 1 THEN <<tags[1]>>
    ELSE <<tags[1], ", ">> \o Join(Tail(tags))

RECURSIVE StringifyTags(_)
StringifyTags(tags) ==
    IF tags = <<>> THEN <<>>
    ELSE <<"\"" \o tags[1] \o "\"">> \o StringifyTags(Tail(tags))

\* { ...a, ...b }: the keys of a keep their place, those of b win.
RECURSIVE Spread(_, _)
Spread(a, b) ==
    IF b = <<>> THEN a
    ELSE LET e == b[1]
             at == {k \in DOMAIN a : a[k].k = e.k}
             a1 == IF at = {} THEN Append(a, e)
                   ELSE [k \in DOMAIN a |-> IF k \in at THEN e ELSE a[k]]
         IN Spread(a1, Tail(b))

\* formatText
FormatText(entry, useColor, showTime, showLevel) ==
    LET levelColor == GetLevelColor(entry.level, useColor)
        reset == IF useColor THEN <<ANSI_COLORS.reset>> ELSE <<>>
        levelLabel == IF showLevel
                      THEN <<"[">> \o levelColor \o <<ToUpperCase(entry.level)>>
                           \o reset \o <<"] ">>
                      ELSE <<>>
        head == IF showTime
                THEN <<entry.timestamp, " ">> \o levelLabel \o entry.message
                ELSE levelLabel \o entry.message
        tagPart == IF Len(entry.tags) > 0
                   THEN <<" [">> \o Join(entry.tags) \o <<"]">> ELSE <<>>
        ctxPart == IF Len(entry.context) > 0
                   THEN <<" ">> \o StringifyContext(entry.context) ELSE <<>>
        dataPart == IF entry.data # "undef"
                    THEN <<" ">> \o StringifyData(entry.data) ELSE <<>>
        errPart == IF entry.error # "undef"
                   THEN <<"\n", "Error: " \o entry.error>> ELSE <<>>
    IN head \o tagPart \o ctxPart \o dataPart \o errPart

\* formatJSON: JSON.stringify of the entry, its keys in the order they were
\* set (timestamp, level, message, data, error, tags, context); a key whose
\* value is undefined is left out, an Error object serializes to {}.
FormatJSON(entry) ==
    <<"{", "\"timestamp\":", "\"" \o entry.timestamp \o "\"",
      "\"level\":", "\"" \o entry.level \o "\"",
      "\"message\":", "\"">> \o entry.message \o <<"\"">>
    \o (IF entry.data # "undef" THEN <<"\"data\":">> \o StringifyData(entry.data)
        ELSE <<>>)
    \o (IF entry.error # "undef" THEN <<"\"error\":", "{", "}">> ELSE <<>>)
    \o <<"\"tags\":", "[">> \o StringifyTags(entry.tags) \o <<"]">>
    \o <<"\"context\":">> \o StringifyContext(entry.context)
    \o <<"}">>

Formats == {"text", "json", "color"}

\* formatLog
FormatLog(entry, format, useColor, showTime, showLevel) ==
    CASE format = "json" -> FormatJSON(entry)
      [] format \in {"color", "text"} -> FormatText(entry, useColor, showTime, showLevel)
      [] OTHER -> FormatText(entry, FALSE, showTime, showLevel)

\* shouldUseColor: color is TRUE, FALSE or "undef"; noColor is the NO_COLOR
\* environment variable being set, tty is isTTY().
ShouldUseColor(color, format, noColor, tty, isFileOutput) ==
    IF isFileOutput THEN FALSE
    ELSE IF color # "undef" THEN color = "true"
    ELSE IF noColor THEN FALSE
    ELSE IF format = "color" /\ tty THEN TRUE
    ELSE FALSE

(***************************************************************************)
(* Entries: filter, sampling, truncation                                   *)
(***************************************************************************)
TagNames == {"api", "internal"}

\* config.filter: absent, or includeTags / excludeTags (an empty list
\* stands for an absent or empty one; updateFilterSets treats both alike).
\* custom names the predicate config.filter.custom, "none" when absent.
NoFilter == [present |-> FALSE, includeTags |-> <<>>, excludeTags |-> <<>>,
             custom |-> "none"]

ShouldFilterByTagsIncludeFirst(filter, tags) ==
    IF ~filter.present THEN TRUE
    ELSE IF Len(filter.includeTags) > 0
            /\ \E k \in DOMAIN tags : tags[k] \in Range(filter.includeTags)
    THEN TRUE
    ELSE IF Len(filter.excludeTags) > 0
            /\ \E k \in DOMAIN tags : tags[k] \in Range(filter.excludeTags)
    THEN FALSE
    ELSE Len(filter.includeTags) = 0

\* shouldFilterByTags up to the custom predicate: the checks against
\* excludeTagsSet and includeTagsSet; `filter` holds config.filter being
\* present and, as its lists, the two lookup sets.
ShouldFilterByTags(filter, tags) ==
    LET includeTagsSet == Range(filter.includeTags)
        excludeTagsSet == Range(filter.excludeTags)
    IN
    IF ~filter.present THEN TRUE
    ELSE IF Len(filter.excludeTags) > 0 /\ Cardinality(excludeTagsSet) > 0
            /\ \E k \in DOMAIN tags : tags[k] \in excludeTagsSet
    THEN FALSE
    ELSE IF Len(filter.includeTags) > 0 /\ Cardinality(includeTagsSet) > 0
            /\ ~\E k \in DOMAIN tags : tags[k] \in includeTagsSet
    THEN FALSE
    ELSE TRUE

RECURSIVE NewSet(_)
\* new Set(list): the elements in insertion order, each once.
NewSet(list) ==
    IF list = <<>> THEN <<>>
    ELSE LET rest == NewSet(SubSeq(list, 1, Len(list) - 1))
             x == list[Len(list)]
         IN IF x \in Range(rest) THEN rest ELSE Append(rest, x)

\* The lookup sets of a Logger under construction: both undefined.
NoFilterSets == [includeTagsSet |-> <<>>, excludeTagsSet |-> <<>>]

UpdateFilterSetsSkipped(sets, f) == sets

\* updateFilterSets: the lookup sets are rebuilt from this.config.filter
\* (<<>> is undefined: the filter or the list is absent or empty); `sets`
\* are the sets held before.
UpdateFilterSets(sets, f) ==
    [includeTagsSet |-> IF Len(f.includeTags) > 0 THEN NewSet(f.includeTags) ELSE <<>>,
     excludeTagsSet |-> IF Len(f.excludeTags) > 0 THEN NewSet(f.excludeTags) ELSE <<>>]

\* The custom predicates of the scenarios, applied to the entry they are
\* given: the message has three characters or more; the entry is tagged
\* "api".
CustomPredicate(custom, entry) ==
    CASE custom = "long" -> Len(entry.message) >= 3
      [] custom = "tagged" -> "api" \in Range(entry.tags)
      [] OTHER -> TRUE

FilterResultCustomFirst(filter, tagsOk, entry) ==
    IF ~filter.present THEN [pass |-> TRUE, custom |-> <<>>]
    ELSE IF filter.custom # "none"
    THEN [pass |-> CustomPredicate(filter.custom, entry) /\ tagsOk, custom |-> <<entry>>]
    ELSE [pass |-> tagsOk, custom |-> <<>>]

\* shouldFilterByTags as a whole: no filter passes; the tag checks
\* (tagsOk is their outcome) reject first; then the custom predicate, if
\* any, is called with the entry and decides. custom is the entry the
\* predicate was called with, if it was.
FilterResult(filter, tagsOk, entry) ==
    IF ~filter.present THEN [pass |-> TRUE, custom |-> <<>>]
    ELSE IF ~tagsOk THEN [pass |-> FALSE, custom |-> <<>>]
    ELSE IF filter.custom # "none"
    THEN [pass |-> CustomPredicate(filter.custom, entry), custom |-> <<entry>>]
    ELSE [pass |-> TRUE, custom |-> <<>>]

\* config.sampling: absent, or a rate (in halves: 0, 1/2, 1) with the
\* level list (empty for an absent or empty one).
NoSampling == [present |-> FALSE, rate |-> 0, levels |-> <<>>]

ShouldSampleAllLevels(sampling, lv, u) ==
    IF ~sampling.present THEN TRUE ELSE u < sampling.rate

\* shouldSample: u is the draw of Math.random(), in halves (0 or 1/2).
ShouldSample(sampling, lv, u) ==
    IF ~sampling.present THEN TRUE
    ELSE IF Len(sampling.levels) > 0 /\ lv \notin Range(sampling.levels) THEN TRUE
    ELSE u < sampling.rate

\* The truncation marker, the single character U+2026.
Marker == "U+2026"

TruncateAlways(message, max) ==
    IF Len(message) <= max THEN message
    ELSE SubSeq(message, 1, max) \o <<Marker>>

\* truncateMessageIfNeeded
TruncateMessageIfNeeded(message, max) ==
    IF max <= 0 \/ Len(message) <= max THEN message
    ELSE SubSeq(message, 1, max) \o <<Marker>>

\* The tags of the entry Logger.log builds: the level methods take
\* (message, data, error) and the entry is given no tags, so a fourth
\* argument is dropped.
CallTags(arg4) == <<>>

(***************************************************************************)
(* Logger instances                                                        *)
(***************************************************************************)
MaxInstances == 2    \* Loggers created in a scenario (a parent and its children)
MaxEntryCalls == 2   \* level-method calls in an entry scenario

\* The overrides given to child(): a key is absent ("absent", <<>>) or set.
NoOverride ==
    [level |-> "absent", tags |-> <<>>, context |-> <<>>, maxMessageLength |-> <<>>]

MAX_PERFORMANCE_ENTRIES == 1000

DEFAULT_AUTO_FILE_PATH == "./logs/app.log"

ResolveOutputConfigManual(output, tty) ==
    [auto |-> output.auto, console |-> output.console, file |-> output.file,
     path |-> IF output.file THEN output.path ELSE "", custom |-> output.custom]

\* resolveOutputConfig: output.file is "a file config was given", path its
\* path ("" without one); tty is isTTY() at the time of the call.
ResolveOutputConfig(output, tty) ==
    IF ~output.auto
    THEN [auto |-> FALSE, console |-> output.console, file |-> output.file,
          path |-> IF output.file THEN output.path ELSE "", custom |-> output.custom]
    ELSE IF tty
    THEN [auto |-> TRUE, console |-> TRUE, file |-> FALSE, path |-> "",
          custom |-> output.custom]
    ELSE [auto |-> TRUE, console |-> FALSE, file |-> TRUE,
          path |-> IF output.file THEN output.path ELSE DEFAULT_AUTO_FILE_PATH,
          custom |-> output.custom]

\* new Logger(raw): the constructor's defaults. raw.tags is <<>> (absent:
\* a new array) or <<r>> (the array r is kept by reference); ref is the
\* array the Logger ends up with. raw.maxMessageLength is <<>> or <<n>>.
\* colorGiven and given record the argument: whether it set color, and its
\* output with isTTY() at the time.
Constructor(raw, ref, parent) ==
    LET output == ResolveOutputConfig(raw, raw.tty) IN
    [level |-> IF raw.level = "undef" THEN "info" ELSE raw.level,
     format |-> IF raw.format = "undef" THEN "text" ELSE raw.format,
     color |-> IF raw.color # "undef" THEN raw.color
               ELSE IF raw.format = "color" /\ raw.tty THEN "true" ELSE "false",
     showTime |-> raw.showTime # "false",
     showLevel |-> raw.showLevel # "false",
     tags |-> ref,
     context |-> raw.context,
     filter |-> raw.filter,
     includeTagsSet |-> UpdateFilterSets(NoFilterSets, raw.filter).includeTagsSet,
     excludeTagsSet |-> UpdateFilterSets(NoFilterSets, raw.filter).excludeTagsSet,
     sampling |-> raw.sampling,
     maxMessageLength |-> IF raw.maxMessageLength = <<>>
                          THEN DEFAULT_MAX_MESSAGE_LENGTH
                          ELSE raw.maxMessageLength[1],
     colorGiven |-> raw.color # "undef",
     given |-> [auto |-> raw.auto, console |-> raw.console, file |-> raw.file,
                path |-> raw.path, custom |-> raw.custom, tty |-> raw.tty],
     auto |-> output.auto,
     console |-> output.console,
     file |-> output.file,
     path |-> output.path,
     custom |-> output.custom,
     timeRotate |-> raw.timeRotate,
     tty |-> raw.tty,
     noColor |-> raw.noColor,
     performanceData |-> <<>>,
     issued |-> 0,
     fileHandle |-> 0,
     fileWriter |-> 0,
     timerId |-> (output.file /\ raw.file /\ raw.timeRotate),
     opening |-> output.file,
     closing |-> FALSE,
     closeCalled |-> FALSE,
     parent |-> parent,
     overrides |-> NoOverride]

\* this.config read back as a constructor argument ({ ...this.config }).
ConfigOf(i) ==
    LET c == instances[i] IN
    [level |-> c.level, format |-> c.format, color |-> c.color,
     showTime |-> IF c.showTime THEN "true" ELSE "false",
     showLevel |-> IF c.showLevel THEN "true" ELSE "false",
     tags |-> <<c.tags>>, context |-> c.context, filter |-> c.filter,
     sampling |-> c.sampling, maxMessageLength |-> <<c.maxMessageLength>>,
     auto |-> c.auto, console |-> c.console, file |-> c.file, path |-> c.path,
     custom |-> c.custom, timeRotate |-> c.timeRotate,
     tty |-> c.tty, noColor |-> c.noColor]

TagsOf(i) == heap[instances[i].tags]

ChildTagsRefShared(p, ov) ==
    IF ov.tags = <<>> THEN instances[p].tags ELSE Len(heap) + 1

\* child(): tags: [...this.config.tags, ...(config.tags || [])] is a new array.
ChildTagsRef(p, ov) == Len(heap) + 1

ChildFileFieldsShared(p) ==
    [fileHandle |-> instances[p].fileHandle, fileWriter |-> instances[p].fileWriter]

\* child() returns new Logger(...): fileHandle and fileWriter start
\* undefined, whatever the parent holds.
ChildFileFields(p) == [fileHandle |-> 0, fileWriter |-> 0]

\* child(config): { ...this.config, ...config } takes every key config
\* carries, a level of undefined included, which the constructor then
\* replaces by its default.
Child(p, ov) ==
    LET parentCfg == ConfigOf(p)
        newTags == TagsOf(p) \o (IF ov.tags = <<>> THEN <<>> ELSE ov.tags[1])
        raw == [parentCfg EXCEPT
                  !.level = IF ov.level = "absent" THEN @ ELSE ov.level,
                  !.tags = <<ChildTagsRef(p, ov)>>,
                  !.context = Spread(@, IF ov.context = <<>> THEN <<>> ELSE ov.context[1]),
                  !.maxMessageLength = IF ov.maxMessageLength # <<>>
                                       THEN ov.maxMessageLength ELSE @]
        made == Constructor(raw, raw.tags[1], p)
    IN
    /\ p \in DOMAIN instances
    /\ Len(instances) < MaxInstances
    /\ heap' = Append(heap, newTags)
    /\ instances' = Append(instances,
                           [made EXCEPT !.fileHandle = ChildFileFields(p).fileHandle,
                                        !.fileWriter = ChildFileFields(p).fileWriter,
                                        !.overrides = ov])
    /\ lastCall' = [NoEntryCall EXCEPT !.op = "child", !.logger = Len(instances) + 1,
                                       !.arg4 = newTags]
    /\ UNCHANGED <<openFiles, emitted>>

PushTagAlways(arr, x) == Append(arr, x)

\* addTag: if (!tags.includes(tag)) tags.push(tag)
PushTag(arr, x) == IF x \in Range(arr) THEN arr ELSE Append(arr, x)

\* removeTag: index = tags.indexOf(tag); if (index > -1) tags.splice(index, 1)
SpliceTag(arr, x) ==
    IF x \notin Range(arr) THEN arr
    ELSE LET index == CHOOSE k \in DOMAIN arr :
                         arr[k] = x /\ \A j \in 1..(k - 1) : arr[j] # x
         IN SubSeq(arr, 1, index - 1) \o SubSeq(arr, index + 1, Len(arr))

\* addTag(tag)
AddTag(i, x) ==
    /\ i \in DOMAIN instances
    /\ heap' = [heap EXCEPT ![instances[i].tags] = PushTag(@, x)]
    /\ lastCall' = [NoEntryCall EXCEPT !.op = "addTag", !.logger = i, !.tag = x,
                                       !.before = TagsOf(i)]
    /\ UNCHANGED <<instances, openFiles, emitted>>

\* removeTag(tag)
RemoveTag(i, x) ==
    /\ i \in DOMAIN instances
    /\ heap' = [heap EXCEPT ![instances[i].tags] = SpliceTag(@, x)]
    /\ lastCall' = [NoEntryCall EXCEPT !.op = "removeTag", !.logger = i, !.tag = x,
                                       !.before = TagsOf(i)]
    /\ UNCHANGED <<instances, openFiles, emitted>>

\* setContext(context)
SetContext(i, c) ==
    /\ i \in DOMAIN instances
    /\ instances' = [instances EXCEPT ![i].context = Spread(@, c)]
    /\ lastCall' = [NoEntryCall EXCEPT !.op = "setContext", !.logger = i]
    /\ UNCHANGED <<heap, openFiles, emitted>>

\* setFilter(filter)
SetFilter(i, f) ==
    LET c == instances[i]
        sets == UpdateFilterSets([includeTagsSet |-> c.includeTagsSet,
                                  excludeTagsSet |-> c.excludeTagsSet], f)
    IN
    /\ i \in DOMAIN instances
    /\ instances' = [instances EXCEPT ![i].filter = f,
                                      ![i].includeTagsSet = sets.includeTagsSet,
                                      ![i].excludeTagsSet = sets.excludeTagsSet]
    /\ lastCall' = [NoEntryCall EXCEPT !.op = "setFilter", !.logger = i, !.set = <<f>>]
    /\ UNCHANGED <<heap, openFiles, emitted>>

\* getFilter()
GetFilter(i) == instances[i].filter

\* setSampling(sampling)
SetSampling(i, sm) ==
    /\ i \in DOMAIN instances
    /\ instances' = [instances EXCEPT ![i].sampling = sm]
    /\ lastCall' = [NoEntryCall EXCEPT !.op = "setSampling", !.logger = i]
    /\ UNCHANGED <<heap, openFiles, emitted>>

\* getSampling()
GetSampling(i) == instances[i].sampling

\* setLevel(level) of an instance
SetLevelOf(i, lv) ==
    /\ i \in DOMAIN instances
    /\ instances' = [instances EXCEPT ![i].level = lv]
    /\ lastCall' = [NoEntryCall EXCEPT !.op = "setLevel", !.logger = i, !.level = lv]
    /\ UNCHANGED <<heap, openFiles, emitted>>

\* initFileOutput of instance i: open completes; the Logger keeps the new
\* handle and a writer on it.
OpenDoneOf(i) ==
    /\ i \in DOMAIN instances
    /\ instances[i].opening
    /\ openFiles' = Append(openFiles, [owner |-> i, fd |-> TRUE, queue |-> <<>>])
    /\ instances' = [instances EXCEPT ![i].opening = FALSE,
                                      ![i].fileHandle = Len(openFiles) + 1,
                                      ![i].fileWriter = Len(openFiles) + 1]
    /\ lastCall' = [NoEntryCall EXCEPT !.op = "open", !.logger = i]
    /\ UNCHANGED <<heap, emitted>>

\* close() of instance i up to its await: the timer is cleared; with a
\* writer held the call waits for the writer's close, else it closes the
\* handle and returns.
CloseOf(i) ==
    /\ i \in DOMAIN instances
    /\ ~instances[i].closeCalled
    /\ LET c == instances[i] IN
       IF c.fileWriter # 0
       THEN /\ instances' = [instances EXCEPT ![i].timerId = FALSE,
                                              ![i].closeCalled = TRUE,
                                              ![i].closing = TRUE]
            /\ UNCHANGED openFiles
       ELSE /\ instances' = [instances EXCEPT ![i].timerId = FALSE,
                                              ![i].closeCalled = TRUE,
                                              ![i].fileHandle = 0]
            /\ openFiles' = IF c.fileHandle = 0 THEN openFiles
                            ELSE [openFiles EXCEPT ![c.fileHandle].fd = FALSE]
    /\ lastCall' = [NoEntryCall EXCEPT !.op = "close", !.logger = i]
    /\ UNCHANGED <<heap, emitted>>

\* The writer's close has settled, which it does once the chunks queued
\* before it are written: close() drops the writer, closes the handle and
\* resolves.
CloseSettledOf(i) ==
    /\ i \in DOMAIN instances
    /\ instances[i].closing
    /\ instances[i].fileWriter # 0 => openFiles[instances[i].fileWriter].queue = <<>>
    /\ LET c == instances[i]
           F1 == IF c.fileWriter = 0 THEN openFiles
                 ELSE [openFiles EXCEPT ![c.fileWriter].fd = FALSE]
       IN
       /\ openFiles' = IF c.fileHandle = 0 THEN F1
                       ELSE [F1 EXCEPT ![c.fileHandle].fd = FALSE]
       /\ instances' = [instances EXCEPT ![i].closing = FALSE,
                                         ![i].fileWriter = 0,
                                         ![i].fileHandle = 0]
    /\ lastCall' = [NoEntryCall EXCEPT !.op = "closed", !.logger = i]
    /\ UNCHANGED <<heap, emitted>>

\* The process is attached to a terminal or detached from it: isTTY()
\* changes for every Logger.
TtyChange ==
    /\ instances # <<>>
    /\ instances' = [k \in DOMAIN instances |-> [instances[k] EXCEPT !.tty = ~@]]
    /\ lastCall' = [NoEntryCall EXCEPT !.op = "tty"]
    /\ UNCHANGED <<heap, openFiles, emitted>>

FileLineFormatConfigured(format) == format

\* The format writeLog passes to formatLog for the file: the literal
\* "text", whatever config.format is.
FileLineFormat(format) == "text"

\* debug/info/warn/error/fatal(message, data, error) of instance i, with
\* a fourth argument arg4 as the README passes it: Logger.log builds the
\* entry, writeLog gates, merges, filters, samples, truncates and writes to
\* the console, then to the file when a writer is held. With no write to
\* wait for the custom sink is called in the same turn; else writeLog
\* awaits the write, and the chunk in the writer's queue stands for the
\* rest of writeLog, which WriteDoneOf runs.
WriteEntry(i, lv, message, data, error, arg4, u) ==
    LET c == instances[i]
        entryTags == CallTags(arg4)
        merged == TagsOf(i) \o entryTags
        gate == ShouldLog(lv, c.level)
        mergedEntry == [level |-> lv, message |-> message, tags |-> merged,
                        context |-> Spread(c.context, <<>>)]
        tagsOk == ShouldFilterByTags([present |-> c.filter.present,
                                      includeTags |-> c.includeTagsSet,
                                      excludeTags |-> c.excludeTagsSet], merged)
        decision == FilterResult(c.filter, tagsOk, mergedEntry)
        filter == gate /\ decision.pass
        sampled == filter /\ ShouldSample(c.sampling, lv, u)
        final == [timestamp |-> "TS", level |-> lv,
                  message |-> TruncateMessageIfNeeded(message, c.maxMessageLength),
                  data |-> data, error |-> error, tags |-> merged,
                  context |-> Spread(c.context, <<>>)]
        conLine == FormatLog(final, c.format,
                             ShouldUseColor(c.color, c.format, c.noColor, c.tty, FALSE),
                             c.showTime, c.showLevel)
        fileLine == FormatLog(final, FileLineFormat(c.format), FALSE,
                              c.showTime, c.showLevel) \o <<"\n">>
        toConsole == IF sampled /\ c.console THEN <<conLine>> ELSE <<>>
        toFile == IF sampled /\ c.file /\ c.fileWriter # 0 THEN <<fileLine>> ELSE <<>>
        awaitsWrite == toFile # <<>>
        toCustom == IF sampled /\ c.custom /\ ~awaitsWrite THEN <<conLine>> ELSE <<>>
    IN
    /\ i \in DOMAIN instances
    /\ Len(emitted) < MaxEntryCalls
    /\ (u # 0) => (filter /\ c.sampling.present)
    /\ emitted' = Append(emitted, [logger |-> i, level |-> lv,
                                    console |-> toConsole, file |-> toFile,
                                    custom |-> toCustom])
    /\ openFiles' = IF awaitsWrite
                    THEN [openFiles EXCEPT ![c.fileWriter].queue =
                             Append(@, [call |-> Len(emitted) + 1, entry |-> final])]
                    ELSE openFiles
    /\ lastCall' = [NoEntryCall EXCEPT
                      !.op = "log", !.logger = i, !.level = lv, !.message = message,
                      !.data = data, !.error = error, !.arg4 = arg4,
                      !.merged = merged, !.final = final.message, !.gate = gate,
                      !.filter = filter, !.sampled = sampled, !.draw = u,
                      !.lines = Len(toConsole) + Len(toFile),
                      !.custom = IF gate THEN decision.custom ELSE <<>>]

\* A level method called by the application.
LogEntry(i, lv, message, data, error, arg4, u) ==
    /\ WriteEntry(i, lv, message, data, error, arg4, u)
    /\ UNCHANGED <<instances, heap>>

\* await this.fileWriter.write(data) of the oldest waiting call of writer h
\* is over (the write succeeded, or failed and the catch block reported it):
\* writeLog goes on to the custom branch, which formats the entry with the
\* configuration and the terminal state of that moment and calls the sink.
WriteDoneOf(h) ==
    /\ h \in DOMAIN openFiles
    /\ openFiles[h].queue # <<>>
    /\ LET q == Head(openFiles[h].queue)
           i == openFiles[h].owner
           c == instances[i]
           line == FormatLog(q.entry, c.format,
                             ShouldUseColor(c.color, c.format, c.noColor, c.tty, FALSE),
                             c.showTime, c.showLevel)
       IN
       /\ emitted' = [emitted EXCEPT ![q.call].custom =
                         IF c.custom THEN <<line>> ELSE <<>>]
       /\ openFiles' = [openFiles EXCEPT ![h].queue = Tail(@)]
       /\ lastCall' = [NoEntryCall EXCEPT !.op = "write", !.logger = i]
    /\ UNCHANGED <<instances, heap>>

(***************************************************************************)
(* Performance timers                                                      *)
(* An id is `${operation}-${Date.now()}-${Math.random()}`: the n-th id a   *)
(* Logger issues is the number n, ids are never issued twice.              *)
(***************************************************************************)
MaxPerfOps == 4      \* performance operations in a scenario
MaxWraps == 2        \* calls of wrapped functions in a scenario

EvictNewest(pd) == SubSeq(pd, 1, Len(pd) - 1)

\* startPerformance at capacity: performanceData.keys().next().value is the
\* first key in insertion order; it is deleted.
EvictFirst(pd) == Tail(pd)

AboveCapacity(pd) == Len(pd) > MAX_PERFORMANCE_ENTRIES

\* this.performanceData.size >= MAX_PERFORMANCE_ENTRIES
AtCapacity(pd) == Len(pd) >= MAX_PERFORMANCE_ENTRIES

\* startPerformance on the tracker pd, the id being `id`.
Started(pd, id) ==
    Append(IF AtCapacity(pd) THEN EvictFirst(pd) ELSE pd, id)

\* k calls of startPerformance in a row, the first of them issuing the id
\* `id`: each appends its id after evicting the first key of a full tracker,
\* so the newest MAX_PERFORMANCE_ENTRIES timers are left.
StartedTimes(pd, id, k) ==
    LET all == pd \o [j \in 1..k |-> id + j - 1] IN
    IF Len(all) > MAX_PERFORMANCE_ENTRIES
    THEN SubSeq(all, Len(all) - MAX_PERFORMANCE_ENTRIES + 1, Len(all))
    ELSE all

\* The id a startPerformance on pd evicts, if any.
EvictedBy(pd, previous) ==
    IF AtCapacity(pd) THEN <<Head(pd)>> ELSE previous

\* The id the most recent eviction removed after k calls of startPerformance
\* in a row on pd, the first of them issuing the id `id`: the evictions take
\* the oldest timers in turn.
EvictedByTimes(pd, id, k, previous) ==
    LET all == pd \o [j \in 1..k |-> id + j - 1]
        n == Len(all) - MAX_PERFORMANCE_ENTRIES
    IN
    IF n > 0 THEN <<all[n]>> ELSE previous

\* performanceData.delete(id)
Delete(pd, id) == SelectSeq(pd, LAMBDA x : x # id)

\* startPerformance(operation)
StartPerformance(i) ==
    LET c == instances[i]
        id == c.issued + 1
    IN
    /\ i \in DOMAIN instances
    /\ lastPerf.n < MaxPerfOps
    /\ instances' = [instances EXCEPT ![i].performanceData = Started(@, id),
                                      ![i].issued = id]
    /\ lastPerf' = [NoPerf EXCEPT !.op = "start", !.logger = i, !.id = id,
                                  !.evicted = EvictedBy(c.performanceData, lastPerf.evicted),
                                  !.before = c.performanceData,
                                  !.calls = Len(emitted), !.n = lastPerf.n + 1]
    /\ UNCHANGED <<heap, openFiles, emitted, lastCall, wraps, conv>>

\* The messages of endPerformance: the miss names the id, the hit the
\* operation and the duration.
NotFoundMessage(id) == <<"performance id not found: ", ToString(id)>>

PerformanceMessage == <<"performance: ", "operation", " took ", "D", "ms">>

\* The level method endPerformance calls: warn on a miss, else the one
\* the switch selects.
EndLevel(hit, lv) == IF hit THEN lv ELSE "warn"

EndKeeps(pd, id) == pd

\* The tracker after endPerformance(id): unchanged on a miss (the early
\* return), else without the id.
Ended(pd, id) == IF id \in Range(pd) THEN Delete(pd, id) ELSE pd

\* The level-method call of endPerformance(id, lv) on the tracker pd.
EndCall(i, pd, id, lv) ==
    LET hit == id \in Range(pd) IN
    WriteEntry(i, EndLevel(hit, lv),
               IF hit THEN PerformanceMessage ELSE NotFoundMessage(id),
               IF hit THEN "perf" ELSE "undef", "undef", <<>>, 0)

\* endPerformance(id, level)
EndPerformance(i, id, lv) ==
    LET pd == instances[i].performanceData IN
    /\ i \in DOMAIN instances
    /\ lastPerf.n < MaxPerfOps
    /\ EndCall(i, pd, id, lv)
    /\ instances' = [instances EXCEPT ![i].performanceData = Ended(pd, id)]
    /\ lastPerf' = [NoPerf EXCEPT !.op = "end", !.logger = i, !.id = id, !.level = lv,
                                  !.evicted = lastPerf.evicted, !.before = pd,
                                  !.hit = (id \in Range(pd)),
                                  !.calls = Len(emitted), !.n = lastPerf.n + 1]
    /\ UNCHANGED <<heap, wraps, conv>>

\* What the wrapped function does: it returns a value, throws, returns a
\* Promise, or returns an awaitable that is no instance of Promise.
FnResults == {"value", "throw", "promise", "thenable"}

IsAwaitable(result) == result \in {"promise", "thenable"}

\* result instanceof Promise
InstanceOfPromise(result) == result = "promise"

EndLevelOnThrowConfigured(lv) == lv

\* The catch block of the wrapper: this.endPerformance(id, "error")
EndLevelOnThrow(lv) == "error"

\* A call of the function performance(operation, lv)(fn) returned: the
\* timer is started, fn runs (and starts `nested` timers of its own), and
\* unless fn returned a Promise the timer is ended before the call returns.
PerformanceCall(i, lv, result, nested) ==
    LET c == instances[i]
        id == c.issued + 1
        pd1 == Started(c.performanceData, id)
        pd2 == StartedTimes(pd1, id + 1, nested)
        w == Len(wraps) + 1
        endLv == IF result = "throw" THEN EndLevelOnThrow(lv) ELSE lv
        endNow == ~InstanceOfPromise(result)
        end == [level |-> endLv, hit |-> id \in Range(pd2),
                logged |-> EndLevel(id \in Range(pd2), endLv),
                settled |-> ~IsAwaitable(result)]
    IN
    /\ i \in DOMAIN instances
    /\ lastPerf.n < MaxPerfOps
    /\ Len(wraps) < MaxWraps
    /\ IF endNow
       THEN /\ EndCall(i, pd2, id, endLv)
            /\ instances' = [instances EXCEPT ![i].performanceData = Ended(pd2, id),
                                              ![i].issued = id + nested]
       ELSE /\ instances' = [instances EXCEPT ![i].performanceData = pd2,
                                              ![i].issued = id + nested]
            /\ UNCHANGED <<emitted, lastCall, openFiles>>
    /\ wraps' = Append(wraps,
                       [logger |-> i, id |-> id, level |-> lv, result |-> result,
                        left |-> nested,
                        state |-> CASE result = "throw" -> "thrown"
                                    [] result = "promise" -> "pending"
                                    [] OTHER -> "returned",
                        observed |-> IF result = "promise" THEN "none" ELSE result,
                        ends |-> IF endNow THEN <<end>> ELSE <<>>])
    /\ lastPerf' = [NoPerf EXCEPT !.op = "call", !.logger = i, !.id = id, !.level = lv,
                                  !.evicted =
                                     EvictedByTimes(pd1, id + 1, nested,
                                        EvictedBy(c.performanceData, lastPerf.evicted)),
                                  !.before = c.performanceData, !.wrap = w,
                                  !.calls = Len(emitted), !.n = lastPerf.n + 1]
    /\ UNCHANGED <<heap, conv>>

\* The Promise the wrapped function returned settles and the callback of
\* result.finally runs: endPerformance(id, level); the promise the wrapper
\* returned settles the same way.
Settle(w, how) ==
    LET r == wraps[w]
        pd == instances[r.logger].performanceData
        end == [level |-> r.level, hit |-> r.id \in Range(pd),
                logged |-> EndLevel(r.id \in Range(pd), r.level), settled |-> TRUE]
    IN
    /\ w \in DOMAIN wraps
    /\ r.state = "pending"
    /\ lastPerf.n < MaxPerfOps
    /\ EndCall(r.logger, pd, r.id, r.level)
    /\ instances' = [instances EXCEPT ![r.logger].performanceData = Ended(pd, r.id)]
    /\ wraps' = [wraps EXCEPT ![w].state = how, ![w].observed = how,
                               ![w].ends = Append(@, end)]
    /\ lastPerf' = [NoPerf EXCEPT !.op = "settle", !.logger = r.logger, !.id = r.id,
                                  !.level = r.level, !.evicted = lastPerf.evicted,
                                  !.before = pd, !.hit = (r.id \in Range(pd)),
                                  !.wrap = w, !.calls = Len(emitted), !.n = lastPerf.n + 1]
    /\ UNCHANGED <<heap, conv>>

(***************************************************************************)
(* Scenarios of the instances                                              *)
(***************************************************************************)
\* createLogger({ output: { console: true, file: { path } } }), all else default.
BaseRaw ==
    [level |-> "undef", format |-> "undef", color |-> "undef",
     showTime |-> "undef", showLevel |-> "undef", tags |-> <<>>, context |-> <<>>,
     filter |-> NoFilter, sampling |-> NoSampling, maxMessageLength |-> <<>>,
     auto |-> FALSE, console |-> TRUE, file |-> TRUE, path |-> "./app.log",
     custom |-> FALSE, timeRotate |-> FALSE,
     tty |-> FALSE, noColor |-> FALSE]

\* Formats: every format and color setting, on a terminal or not, with and
\* without timestamp and level label, a context set.
FormatRaws ==
    {[BaseRaw EXCEPT !.level = lv, !.format = f, !.color = ct[1], !.tty = ct[2],
                     !.showTime = st, !.showLevel = sl,
                     !.context = <<[k |-> "a", v |-> 1]>>] :
        lv \in {"undef", "warn"}, f \in Formats,
        ct \in {<<"undef", TRUE>>, <<"undef", FALSE>>, <<"true", FALSE>>, <<"false", TRUE>>},
        st \in {"undef", "false"}, sl \in {"undef", "false"}}
    \cup
    {[BaseRaw EXCEPT !.level = "warn", !.format = f, !.console = FALSE] : f \in Formats}

\* Color: every format and color setting with and without NO_COLOR, on a
\* terminal or not, console and custom sink; no file.
ColorRaws ==
    {[BaseRaw EXCEPT !.format = f, !.color = col, !.tty = t, !.noColor = nc,
                     !.console = con, !.custom = cu, !.file = FALSE] :
        f \in Formats \cup {"undef"}, col \in {"undef", "true", "false"},
        t \in BOOLEAN, nc \in BOOLEAN, con \in BOOLEAN, cu \in BOOLEAN}

TagLists == {<<>>, <<"api">>, <<"internal">>, <<"api", "internal">>}

\* Tag filters: absent, or every include / exclude list.
FilterRaws ==
    {[BaseRaw EXCEPT !.level = "debug", !.filter = flt] :
        flt \in {NoFilter} \cup
                {[present |-> TRUE, includeTags |-> inc, excludeTags |-> exc,
                  custom |-> "none"] :
                    inc \in {<<>>, <<"api">>, <<"api", "internal">>},
                    exc \in {<<>>, <<"internal">>}}}

\* Truncation: every maxMessageLength up to the longest message.
TruncRaws ==
    {[BaseRaw EXCEPT !.maxMessageLength = <<m>>] : m \in 0..MaxMsgLen}

\* One Logger, constructed: the constructor has called initFileOutput
\* without awaiting it, the open of the file is pending.
EntryConstructed(raw, tags) ==
    /\ heap = <<tags>>
    /\ instances = <<Constructor(raw, 1, 0)>>
    /\ openFiles = <<>>
    /\ emitted = <<>>
    /\ lastCall = NoEntryCall

InitEntry ==
    /\ RedirectIdle
    /\ LoggerIdle
    /\ WrappersIdle
    /\ \/ \E raw \in FormatRaws \cup TruncRaws : EntryConstructed(raw, <<>>)
       \/ \E raw \in FilterRaws, tags \in TagLists : EntryConstructed(raw, tags)

\* The arguments of the calls: levels, messages (long ones where a
\* maxMessageLength is configured), data or an error, a fourth argument
\* where a filter is configured.
CallLevels == {"info", "error"}

MessagesFor(i) ==
    IF instances[i].maxMessageLength = DEFAULT_MAX_MESSAGE_LENGTH
    THEN {m \in Messages : Len(m) = 1} ELSE Messages

Payloads == {<<"undef", "undef">>, <<"code1", "undef">>, <<"undef", "boom">>}

FourthArgsFor(i) ==
    IF instances[i].filter.present THEN {<<>>, <<"api">>, <<"internal">>} ELSE {<<>>}

NextEntry ==
    \/ \E i \in DOMAIN instances, lv \in CallLevels, pl \in Payloads, u \in 0..1 :
          \E m \in MessagesFor(i), arg4 \in FourthArgsFor(i) :
              LogEntry(i, lv, m, pl[1], pl[2], arg4, u) /\ UNCHANGED <<rvars, lvars, pvars>>
    \/ \E ml \in {<<>>} \cup {<<m>> : m \in 0..MaxMsgLen} :
          \* children are made before the first call, of a Logger with a
          \* maxMessageLength of its own
          /\ emitted = <<>>
          /\ instances[1].maxMessageLength # DEFAULT_MAX_MESSAGE_LENGTH
          /\ Child(1, [NoOverride EXCEPT !.maxMessageLength = ml])
          /\ UNCHANGED <<rvars, lvars, pvars>>
    \/ \E h \in DOMAIN openFiles : WriteDoneOf(h) /\ UNCHANGED <<rvars, lvars, pvars>>
    \/ \E i \in DOMAIN instances : OpenDoneOf(i) /\ UNCHANGED <<rvars, lvars, pvars>>

SpecEntry == InitEntry /\ [][NextEntry]_vars

\* A family: a Logger and the children made of it, their tags, context
\* and level. The root writes to the console only.
FamilyRaws ==
    {[BaseRaw EXCEPT !.context = c, !.file = FALSE] :
        c \in {<<>>, <<[k |-> "a", v |-> 1]>>}}

\* A family with files: the root has file output, with or without rotation
\* by time; its open is pending.
FileFamilyRaws ==
    {[BaseRaw EXCEPT !.context = c, !.timeRotate = tr] :
        c \in {<<>>, <<[k |-> "a", v |-> 1]>>}, tr \in BOOLEAN}

FamilyConstructed(raw, tags) ==
    /\ heap = <<tags>>
    /\ instances = <<Constructor(raw, 1, 0)>>
    /\ openFiles = <<>>
    /\ emitted = <<>>
    /\ lastCall = NoEntryCall

InitFamily ==
    /\ RedirectIdle
    /\ LoggerIdle
    /\ WrappersIdle
    /\ \E raw \in FamilyRaws, tags \in {<<>>, <<"api">>} : FamilyConstructed(raw, tags)

\* The overrides of child() in the family.
\* level: the key is absent, or present with a level, or present with the
\* value undefined ("undef").
Overrides ==
    [level : {"absent", "error", "undef"},
     tags : {<<>>, << <<"internal">> >>, << <<"api">> >>},
     context : {<<>>, << <<[k |-> "b", v |-> 2]>> >>, << <<[k |-> "a", v |-> 2]>> >>},
     maxMessageLength : {<<>>}]

NextFamily ==
    \/ \E p \in DOMAIN instances, ov \in Overrides :
          Child(p, ov) /\ UNCHANGED <<rvars, lvars, pvars>>
    \/ \E i \in DOMAIN instances, x \in TagNames :
          AddTag(i, x) /\ UNCHANGED <<rvars, lvars, pvars>>
    \/ \E i \in DOMAIN instances, x \in TagNames :
          RemoveTag(i, x) /\ UNCHANGED <<rvars, lvars, pvars>>
    \/ \E i \in DOMAIN instances, c \in {<<[k |-> "b", v |-> 3]>>} :
          SetContext(i, c) /\ UNCHANGED <<rvars, lvars, pvars>>
    \/ \E i \in DOMAIN instances, lv \in {"debug"} :
          SetLevelOf(i, lv) /\ UNCHANGED <<rvars, lvars, pvars>>

SpecFamily == InitFamily /\ [][NextFamily]_vars

InitFileFamily ==
    /\ RedirectIdle
    /\ LoggerIdle
    /\ WrappersIdle
    /\ \E raw \in FileFamilyRaws, tags \in {<<>>, <<"api">>} :
          FamilyConstructed(raw, tags)

NextFileFamily ==
    \/ \E p \in DOMAIN instances, tg \in {<<>>, << <<"internal">> >>} :
          Child(p, [NoOverride EXCEPT !.tags = tg]) /\ UNCHANGED <<rvars, lvars, pvars>>
    \/ \E i \in DOMAIN instances : OpenDoneOf(i) /\ UNCHANGED <<rvars, lvars, pvars>>
    \/ \E i \in DOMAIN instances : CloseOf(i) /\ UNCHANGED <<rvars, lvars, pvars>>
    \/ \E i \in DOMAIN instances : CloseSettledOf(i) /\ UNCHANGED <<rvars, lvars, pvars>>

SpecFileFamily == InitFileFamily /\ [][NextFileFamily]_vars

\* The filters given to the constructor and to setFilter: include and
\* exclude lists (one with a tag twice) and custom predicates.
FilterSettings ==
    {[present |-> TRUE, includeTags |-> inc, excludeTags |-> exc, custom |-> cu] :
        inc \in {<<>>, <<"api">>, <<"internal", "internal">>},
        exc \in {<<>>, <<"internal">>},
        cu \in {"none", "long", "tagged"}}

\* Filters: one Logger with or without a filter, messages cut at one
\* character; setFilter between the calls.
InitFilter ==
    /\ RedirectIdle /\ LoggerIdle /\ WrappersIdle
    /\ \E flt \in {NoFilter} \cup FilterSettings, tags \in TagLists :
          EntryConstructed([BaseRaw EXCEPT !.level = "debug", !.filter = flt,
                                           !.maxMessageLength = <<1>>], tags)

NextFilter ==
    \/ \E i \in DOMAIN instances, f \in FilterSettings :
          SetFilter(i, f) /\ UNCHANGED <<rvars, lvars, pvars>>
    \/ \E i \in DOMAIN instances, m \in {<<"1">>, <<"1", "2", "3">>} :
          LogEntry(i, "info", m, "undef", "undef", <<>>, 0) /\ UNCHANGED <<rvars, lvars, pvars>>
    \/ \E h \in DOMAIN openFiles : WriteDoneOf(h) /\ UNCHANGED <<rvars, lvars, pvars>>
    \/ \E i \in DOMAIN instances : OpenDoneOf(i) /\ UNCHANGED <<rvars, lvars, pvars>>

\* Sampling: one Logger with or without a sampling configuration;
\* setSampling between the calls.
SamplingSettings ==
    {[present |-> TRUE, rate |-> r, levels |-> ls] :
        r \in 0..2, ls \in {<<>>, <<"error">>, <<"info", "error">>}}

InitSampling ==
    /\ RedirectIdle /\ LoggerIdle /\ WrappersIdle
    /\ \E sm \in {NoSampling} \cup SamplingSettings :
          EntryConstructed([BaseRaw EXCEPT !.sampling = sm], <<>>)

NextSampling ==
    \/ \E i \in DOMAIN instances, sm \in SamplingSettings :
          SetSampling(i, sm) /\ UNCHANGED <<rvars, lvars, pvars>>
    \/ \E i \in DOMAIN instances, lv \in CallLevels, u \in 0..1 :
          LogEntry(i, lv, <<"1">>, "undef", "undef", <<>>, u)
          /\ UNCHANGED <<rvars, lvars, pvars>>
    \/ \E h \in DOMAIN openFiles : WriteDoneOf(h) /\ UNCHANGED <<rvars, lvars, pvars>>
    \/ \E i \in DOMAIN instances : OpenDoneOf(i) /\ UNCHANGED <<rvars, lvars, pvars>>

SpecSampling == InitSampling /\ [][NextSampling]_vars

SpecFilter == InitFilter /\ [][NextFilter]_vars

\* Color: one Logger of every color configuration, its children, log calls,
\* the TTY state changing.
InitColor ==
    RedirectIdle /\ LoggerIdle /\ WrappersIdle /\ \E raw \in ColorRaws : FamilyConstructed(raw, <<>>)

NextColor ==
    \/ TtyChange /\ UNCHANGED <<rvars, lvars, pvars>>
    \/ \E i \in DOMAIN instances, lv \in {"info", "error"} :
          LogEntry(i, lv, <<"1">>, "undef", "undef", <<>>, 0) /\ UNCHANGED <<rvars, lvars, pvars>>
    \/ Child(1, NoOverride) /\ UNCHANGED <<rvars, lvars, pvars>>

SpecColor == InitColor /\ [][NextColor]_vars

\* Output routing: every combination of auto, console, file and custom
\* sink, constructed on a terminal or not; the open is pending.
AutoRaws ==
    {[BaseRaw EXCEPT !.auto = a, !.console = c, !.file = f,
                     !.path = IF f THEN "./app.log" ELSE "", !.custom = cu,
                     !.tty = t] :
        a \in BOOLEAN, c \in BOOLEAN, f \in BOOLEAN, cu \in BOOLEAN, t \in BOOLEAN}

InitAuto ==
    /\ RedirectIdle
    /\ LoggerIdle
    /\ WrappersIdle
    /\ \E raw \in AutoRaws : FamilyConstructed(raw, <<>>)

NextAuto ==
    \/ TtyChange /\ UNCHANGED <<rvars, lvars, pvars>>
    \/ \E i \in DOMAIN instances : OpenDoneOf(i) /\ UNCHANGED <<rvars, lvars, pvars>>
    \/ \E i \in DOMAIN instances :
          LogEntry(i, "info", <<"1">>, "undef", "undef", <<>>, 0)
          /\ UNCHANGED <<rvars, lvars, pvars>>
    \/ Child(1, NoOverride) /\ UNCHANGED <<rvars, lvars, pvars>>
    \/ \E h \in DOMAIN openFiles : WriteDoneOf(h) /\ UNCHANGED <<rvars, lvars, pvars>>

SpecAuto == InitAuto /\ [][NextAuto]_vars

\* Performance timers: a Logger that writes to the console, at the default
\* level or at error; it has started n timers and ended none of them.
PerfRaws == {[BaseRaw EXCEPT !.file = FALSE, !.level = lv] : lv \in {"undef", "error"}}

PerfConstructed(raw, n) ==
    /\ heap = <<<<>>>>
    /\ instances = <<[Constructor(raw, 1, 0) EXCEPT
                        !.performanceData = [k \in 1..n |-> k], !.issued = n]>>
    /\ openFiles = <<>>
    /\ emitted = <<>>
    /\ lastCall = NoEntryCall

InitPerf ==
    /\ RedirectIdle
    /\ LoggerIdle
    /\ WrappersIdle
    /\ \E raw \in PerfRaws,
          n \in {0, MAX_PERFORMANCE_ENTRIES - 1, MAX_PERFORMANCE_ENTRIES} :
          PerfConstructed(raw, n)

\* The ids given to endPerformance: one never issued, the two oldest, the
\* newest.
PerfIds(i) == {0, 1, 2, instances[i].issued}

NextPerf ==
    \/ \E i \in DOMAIN instances : StartPerformance(i) /\ UNCHANGED <<rvars, lvars>>
    \/ \E i \in DOMAIN instances, lv \in {"debug", "info"} :
          \E id \in PerfIds(i) : EndPerformance(i, id, lv) /\ UNCHANGED <<rvars, lvars>>

\* The timers a wrapped function starts itself and leaves running: none,
\* one, or as many as the tracker holds.
NestedStarts == {0, 1, MAX_PERFORMANCE_ENTRIES}

SpecPerf == InitPerf /\ [][NextPerf]_vars

\* A call of a wrapped function whose Promise is pending, while the tracker
\* has since filled up: its timer is the oldest one.
PendingOldest ==
    <<[logger |-> 1, id |-> 1, level |-> "info", result |-> "promise", left |-> 0,
       state |-> "pending", observed |-> "none", ends |-> <<>>]>>

\* Wrapped functions: the tracker is empty, or full with or without a
\* pending call.
InitWrap ==
    /\ RedirectIdle
    /\ LoggerIdle
    /\ lastPerf = NoPerf
    /\ conv = NoConv
    /\ \E raw \in PerfRaws :
          \/ wraps = <<>> /\ PerfConstructed(raw, 0)
          \/ wraps = <<>> /\ PerfConstructed(raw, MAX_PERFORMANCE_ENTRIES)
          \/ wraps = PendingOldest /\ PerfConstructed(raw, MAX_PERFORMANCE_ENTRIES)

NextWrap ==
    \/ \E i \in DOMAIN instances, lv \in {"debug"}, result \in FnResults,
          nested \in NestedStarts :
          PerformanceCall(i, lv, result, nested) /\ UNCHANGED <<rvars, lvars>>
    \/ \E w \in DOMAIN wraps, how \in {"fulfilled", "rejected"} :
          Settle(w, how) /\ UNCHANGED <<rvars, lvars>>
    \/ \E i \in DOMAIN instances : StartPerformance(i) /\ UNCHANGED <<rvars, lvars>>

SpecWrap == InitWrap /\ [][NextWrap]_vars

\* The tracker under every operation on it: timers started and ended by
\* the application, wrapped functions called and settling.
NextTracker ==
    \/ NextWrap
    \/ \E i \in DOMAIN instances, lv \in {"debug"} :
          \E id \in PerfIds(i) : EndPerformance(i, id, lv) /\ UNCHANGED <<rvars, lvars>>

SpecTracker == InitWrap /\ [][NextTracker]_vars

(***************************************************************************)
(* Claims                                                                  *)
(***************************************************************************)
LogTasks == {t \in DOMAIN tasks : tasks[t].kind = "log"}

DoneLogTasks == {t \in LogTasks : tasks[t].pc = "done"}

InSeq(x, q) == \E k \in DOMAIN q : q[k] = x

\* The diagnostic each kind of failure is reported with.
ReportOf(k) ==
    CASE k = "filter" -> "writeLog" [] k = "write" -> "file" [] OTHER -> k

\* C1: no level method throws to its caller: whatever fails inside the
\* pipeline (the filter predicate, the console write, the file write, the
\* size check, the rotation, the reopening, the custom sink), the call
\* returns normally, and once the call's work is over each such failure has
\* been reported on the real console.
C1_NoThrowToCaller ==
    \A t \in LogTasks :
        /\ tasks[t].outcome = "returned"
        /\ tasks[t].pc = "done" =>
              \A k \in tasks[t].failed : <<t, ReportOf(k)>> \in errs

\* A call whose filter predicate threw has returned to its caller.
C1_Witness ==
    \E t \in DoneLogTasks :
        "filter" \in tasks[t].failed /\ tasks[t].outcome = "returned"

\* C2: the level gate. A call below the minimum level configured at the time
\* of the call reaches no target and leaves no output; with no filter and no
\* sampling, a call at or above it is dispatched to every active target
\* (console when enabled, file when a writer is held, custom sink when set).
C2_LevelGate ==
    \A t \in LogTasks :
        LET below == LOG_LEVELS[tasks[t].level] < LOG_LEVELS[tasks[t].min] IN
        /\ below =>
              /\ tasks[t].att = {}
              /\ ~InSeq(t, consoleOut) /\ ~InSeq(t, customOut)
              /\ tasks[t].appended = 0
              /\ \A h \in DOMAIN handles : ~InSeq(t, handles[h].queue)
        /\ (~below /\ tasks[t].pc = "done") =>
              /\ tasks[t].att = {x \in Targets :
                                   \/ x = "console" /\ cfg.console
                                   \/ x = "file" /\ cfg.file /\ tasks[t].hadWriter
                                   \/ x = "custom" /\ cfg.custom}
              /\ cfg.console => InSeq(t, consoleOut)
              /\ cfg.custom => InSeq(t, customOut)
              /\ (cfg.file /\ tasks[t].hadWriter) => tasks[t].appended = 1

\* After a setLevel, one call was suppressed and one at exactly the minimum
\* was written to console, file and custom sink.
C2_Witness ==
    \E t1, t2 \in DoneLogTasks :
        /\ tasks[t1].min # tasks[t2].min
        /\ LOG_LEVELS[tasks[t1].level] < LOG_LEVELS[tasks[t1].min]
        /\ tasks[t2].level = tasks[t2].min
        /\ tasks[t2].att = Targets
        /\ tasks[t2].appended = 1

\* C3: target failure isolation. For a dispatched entry, a console failure
\* leaves the file write attempted (when a writer is held) and the custom
\* sink invoked; a failure of the file write, of the size check or of the
\* rotation leaves the custom sink invoked; a custom sink failure leaves the
\* console line and the appended file line in place.
C3_TargetIsolation ==
    \A t \in DoneLogTasks :
        tasks[t].passed =>
            /\ "console" \in tasks[t].failed =>
                  /\ (cfg.file /\ tasks[t].hadWriter) => "file" \in tasks[t].att
                  /\ cfg.custom => "custom" \in tasks[t].att
            /\ tasks[t].failed \cap {"write", "stat", "rotate", "open"} # {} =>
                  (cfg.custom => "custom" \in tasks[t].att)
            /\ "custom" \in tasks[t].failed =>
                  /\ (cfg.console /\ "console" \notin tasks[t].failed)
                        => InSeq(t, consoleOut)
                  /\ ("file" \in tasks[t].att /\ "write" \notin tasks[t].failed)
                        => tasks[t].appended = 1

\* One entry whose console write failed, whose line was appended to the
\* file and whose custom sink was invoked and failed too.
C3_Witness ==
    \E t \in DoneLogTasks :
        /\ {"console", "custom"} \subseteq tasks[t].failed
        /\ tasks[t].appended = 1
        /\ "custom" \in tasks[t].att

LastOps(q) == Len(ops) >= Len(q) /\ SubSeq(ops, Len(ops) - Len(q) + 1, Len(ops)) = q

\* C4: no recursive forwarding. The console used by a Logger's own write
\* is never a forwarder, and no console or Logger call enters a Logger
\* method a second time from inside its own console write.
C4_NoRecursiveForwarding ==
    /\ \A m \in Methods : ConsoleForOutput[m].kind = "native"
    /\ Len(last.calls) <= 1
    /\ ~last.overflow

\* C5: a restore that follows two consecutive redirects reinstalls the true
\* console: no forwarder is left installed.
C5_DoubleRedirectKeepsOriginal ==
    LastOps(<<"redirect", "redirect", "restore">>) =>
        \A m \in Methods : console[m].kind = "native"

\* C6: the round trip. Right after a redirect followed by a restore the
\* console methods are those installed before redirection began, none of
\* them forwards to a Logger, and the captured-original slot is empty; and
\* while the slot is empty no console call reaches a Logger.
C6_RedirectRestoreRoundTrip ==
    /\ LastOps(<<"redirect", "restore">>) =>
          /\ console = pre
          /\ originalConsole = <<>>
          /\ \A m \in Methods : console[m].kind = "native"
    /\ (originalConsole = <<>> /\ last.op = "console") => last.calls = <<>>

\* C7: while redirection is active, a console call makes exactly one call of
\* the target Logger's corresponding method, and the target is the Logger
\* given to redirect, the default Logger when none was given.
C7_ForwardExactlyOnce ==
    /\ originalConsole # <<>> =>
          \A m \in Methods :
              console[m] = Forwarder(IF redirArg = "none" THEN "default" ELSE redirArg,
                                     ForwardLevel(m))
    /\ (originalConsole # <<>> /\ last.op = "console") =>
          Cardinality({k \in DOMAIN last.calls :
                          last.calls[k] = <<last.target.logger,
                                            ForwardLevel(last.method)>>}) = 1

\* Every task has run to its end and no stream has a chunk left to write.
Quiescent ==
    /\ \A t \in DOMAIN tasks : tasks[t].pc = "done"
    /\ \A h \in DOMAIN handles : handles[h].queue = <<>>

\* C8: once close() has resolved the Logger holds neither a file writer nor
\* a file handle, and every log call made after that skips the file target,
\* appends nothing and returns normally, however close() interleaves with
\* the constructor's open and with a rotation in flight.
C8_ClosedHoldsNothing ==
    closeResolved =>
        /\ fileWriter = 0
        /\ fileHandle = 0
        /\ \A t \in LogTasks :
              tasks[t].late =>
                  /\ "file" \notin tasks[t].att
                  /\ tasks[t].appended = 0
                  /\ tasks[t].outcome = "returned"

\* close() had been called before log call t was made.
CloseCalledBefore(t) == \E c \in 1..(t - 1) : tasks[c].kind = "close"

\* C9 as stated: every call that passes the gates on a Logger with file
\* output, made before close() is called, has its line appended at least
\* once, also when it is made before the constructor's open has completed
\* or while a rotation is in progress.
C9_AtLeastOnceAppend ==
    \A t \in DoneLogTasks :
        (tasks[t].passed /\ ~CloseCalledBefore(t)) => tasks[t].appended >= 1

\* C9 amended: a call that passes the gates while the Logger holds a file
\* writer has its line appended at least once unless a "logger file output
\* error" is reported for it; a call made while the Logger holds no writer
\* (the constructor's open has not completed, or a rotation has dropped the
\* writer and not yet reopened the file) appends nothing and reports nothing.
C9_AppendWhileWriterHeld ==
    \A t \in DoneLogTasks :
        tasks[t].passed =>
            /\ (tasks[t].hadWriter /\ <<t, "file">> \notin errs)
                  => tasks[t].appended >= 1
            /\ ~tasks[t].hadWriter
                  => (tasks[t].appended = 0 /\ <<t, "file">> \notin errs)

\* One call made while a writer was held, whose line was appended, one whose
\* write failed and was reported, and one made while no writer was held.
C9_Witness ==
    /\ \E t \in DoneLogTasks :
          tasks[t].passed /\ tasks[t].hadWriter /\ tasks[t].appended = 1
    /\ \E t \in DoneLogTasks :
          tasks[t].passed /\ ~tasks[t].hadWriter /\ tasks[t].appended = 0

\* C10: with rotation by size only at work (the timer has not fired and
\* close() was not called), rotateLog runs at most once per write that takes
\* the active file to maxSize, and when all work is over after a rotation
\* <path>.1 holds the content that reached maxSize, and the active file is
\* below maxSize and open for writing.
C10_OneRotationPerCrossing ==
    (NumTasks("timer") = 0 /\ NumTasks("close") = 0) =>
        /\ rotations <= crossings
        /\ (Quiescent /\ rotations >= 1) =>
              /\ rotations = crossings
              /\ dir[1] # 0 /\ dir[0] # 0
              /\ dir[1] # 0 => Len(inodes[dir[1]]) >= cfg.maxSize
              /\ dir[0] # 0 => Len(inodes[dir[0]]) < cfg.maxSize
              /\ fileWriter # 0
              /\ fileWriter # 0 =>
                    (handles[fileWriter].fd /\ handles[fileWriter].wstate = "open")

\* C11: the backup layout. The files of a fresh path are numbered in the
\* order of their creation, so after r rotations that ran one at a time the
\* active file is file r + 1 and the file that was active before the i-th
\* most recent rotation is file r + 1 - i. With no rotation in progress,
\* <path>.i is that file for 1 <= i <= maxFiles (as far as r rotations
\* reach), no other backup exists, so the older files are discarded; and at
\* no time does a backup with an index above maxFiles exist.
C11_BackupLayout ==
    /\ \A j \in 1..MaxFilesBound : j > cfg.maxFiles => dir[j] = 0
    /\ (~Rotating /\ rotations >= 1) =>
          /\ dir[0] = rotations + 1
          /\ \A i \in 1..MaxFilesBound :
                dir[i] = IF i <= cfg.maxFiles /\ i <= rotations
                         THEN rotations + 1 - i ELSE 0

\* Three rotations with maxFiles = 2 are over: <path>.1 and <path>.2 hold
\* the second and third file, the first one is gone.
C11_Witness ==
    /\ ~Rotating /\ rotations = 3 /\ cfg.maxFiles = 2
    /\ dir[1] = 3 /\ dir[2] = 2
    /\ inodes[3] # <<>>

HasAnsi(line) == \E j \in DOMAIN line : line[j] \in AnsiCodes

\* The line is one serialized JSON object.
IsJsonObject(line) == Len(line) >= 2 /\ line[1] = "{" /\ line[Len(line)] = "}"

\* The tokens that follow the key in a serialized object, n of them.
JsonField(line, key, n) ==
    IF \E j \in DOMAIN line : line[j] = key /\ j + n <= Len(line)
    THEN LET j == CHOOSE j \in DOMAIN line : line[j] = key /\ j + n <= Len(line)
         IN SubSeq(line, j + 1, j + n)
    ELSE <<>>

WithoutNewline(line) ==
    IF line # <<>> /\ line[Len(line)] = "\n" THEN SubSeq(line, 1, Len(line) - 1)
    ELSE line

\* C12: every line written to the file is plain text without color codes,
\* whatever format and color the Logger is configured with: it ends with a
\* newline, holds no ANSI code, is not a serialized JSON object, and when
\* the level label is shown the label is "[", the level in capitals, "] "
\* with nothing in between.
C12_FileLinePlainText ==
    \A k \in DOMAIN emitted :
        emitted[k].file # <<>> =>
            LET line == emitted[k].file[1]
                c == instances[emitted[k].logger]
            IN
            /\ line[Len(line)] = "\n"
            /\ ~HasAnsi(line)
            /\ ~IsJsonObject(WithoutNewline(line))
            /\ c.showLevel =>
                  \E j \in 1..(Len(line) - 2) :
                      /\ line[j] = "["
                      /\ line[j + 1] = ToUpperCase(emitted[k].level)
                      /\ line[j + 2] = "] "

\* A call of a Logger with format "color" whose console line carries ANSI
\* codes wrote a file line too.
C12_Witness ==
    \E k \in DOMAIN emitted :
        /\ emitted[k].file # <<>>
        /\ emitted[k].console # <<>>
        /\ HasAnsi(emitted[k].console[1])
        /\ instances[emitted[k].logger].format = "color"

\* The scenario of C13: level warn, format json, file output, console off;
\* info(x) and then error(y, {code: 1}) were called.
C13_Scenario ==
    /\ Len(instances) = 1
    /\ instances[1].level = "warn" /\ instances[1].format = "json"
    /\ instances[1].file /\ ~instances[1].console
    /\ Len(emitted) = 2
    /\ emitted[1].level = "info"
    /\ lastCall.op = "log" /\ lastCall.level = "error"
    /\ lastCall.data = "code1" /\ lastCall.error = "undef"

\* C13 as stated: in that scenario the info call wrote nothing and the file
\* holds exactly one line, a JSON object whose level is "error", whose
\* message is the message of the call and whose data is {code: 1}.
C13_JsonLineInFile ==
    C13_Scenario =>
        /\ emitted[1].file = <<>>
        /\ Len(emitted[2].file) = 1
        /\ LET line == WithoutNewline(emitted[2].file[1]) IN
           /\ IsJsonObject(line)
           /\ JsonField(line, "\"level\":", 1) = <<"\"error\"">>
           /\ JsonField(line, "\"message\":", Len(lastCall.message) + 2)
                 = <<"\"">> \o lastCall.message \o <<"\"">>
           /\ JsonField(line, "\"data\":", 4) = <<"{", "\"code\":", "1", "}">>

\* C13 amended: in that scenario the info call wrote nothing. When the
\* error call is made after the constructor's open has completed (the Logger
\* holds its writer), the file holds exactly one line, the plain-text
\* rendering of the error entry: timestamp, "[ERROR] ", the message, and
\* {"code":1} serialized after it; made before that, it skips the file,
\* which stays empty.
C13_TextLineInFile ==
    C13_Scenario =>
        /\ emitted[1].file = <<>>
        /\ emitted[2].file =
              IF instances[1].fileWriter # 0
              THEN << <<"TS", " ", "[", "ERROR", "] ">> \o lastCall.message
                      \o <<" ", "{", "\"code\":", "1", "}", "\n">> >>
              ELSE <<>>

\* The error call, made with the file open, wrote one line, which is no
\* JSON object.
C13_Witness ==
    /\ C13_Scenario
    /\ instances[1].fileWriter # 0
    /\ Len(emitted[2].file) = 1
    /\ ~IsJsonObject(WithoutNewline(emitted[2].file[1]))

\* The most recent operation is a level-method call that passed the level gate.
GatedCall == lastCall.op = "log" /\ lastCall.gate

\* C14: the tag check is decided by the merged tag list alone: an entry
\* with a tag in excludeTags is rejected; one without passes iff includeTags
\* is empty or absent or holds one of its tags (so an entry without tags is
\* rejected when includeTags is not empty); and an entry that fails the
\* check writes no line.
C14_TagFilter ==
    GatedCall =>
        LET f == instances[lastCall.logger].filter
            tags == Range(lastCall.merged)
            excluded == tags \cap Range(f.excludeTags) # {}
            included == Range(f.includeTags) = {} \/ tags \cap Range(f.includeTags) # {}
        IN
        /\ excluded => ~lastCall.filter
        /\ ~excluded => (lastCall.filter <=> included)
        /\ ~lastCall.filter => lastCall.lines = 0

\* An entry tagged api and internal is rejected by excludeTags although
\* includeTags names one of its tags.
C14_Witness ==
    /\ GatedCall
    /\ lastCall.merged = <<"api", "internal">>
    /\ instances[lastCall.logger].filter.includeTags = <<"api">>
    /\ instances[lastCall.logger].filter.excludeTags = <<"internal">>
    /\ ~lastCall.filter

\* C15: on a Logger with includeTags = ["api"] and no tags of its own, a
\* call that passes ["api"] as its fourth argument is emitted and a call
\* that passes ["internal"] is not.
C15_PerCallTags ==
    (/\ GatedCall
     /\ instances[lastCall.logger].filter.present
     /\ instances[lastCall.logger].filter.includeTags = <<"api">>
     /\ instances[lastCall.logger].filter.excludeTags = <<>>
     /\ TagsOf(lastCall.logger) = <<>>) =>
        /\ lastCall.arg4 = <<"api">> => lastCall.lines > 0
        /\ lastCall.arg4 = <<"internal">> => lastCall.lines = 0

\* The most recent operation is a call that reached the sampling stage of
\* a Logger with sampling configured.
SamplingCall ==
    /\ lastCall.op = "log" /\ lastCall.filter
    /\ instances[lastCall.logger].sampling.present

\* C16: the scope of sampling. With a non-empty level list an entry whose
\* level is not listed passes whatever the rate; an entry whose level is
\* listed, or any entry without a list, passes when the rate is 1 and is
\* dropped when the rate is 0.
C16_SamplingScope ==
    SamplingCall =>
        LET sm == instances[lastCall.logger].sampling
            outside == sm.levels # <<>> /\ lastCall.level \notin Range(sm.levels)
        IN
        /\ outside => lastCall.sampled
        /\ (~outside /\ sm.rate = 2) => lastCall.sampled
        /\ (~outside /\ sm.rate = 0) => ~lastCall.sampled

\* With rate 0 and the level list [error], an info call was written.
C16_Witness ==
    /\ SamplingCall
    /\ instances[lastCall.logger].sampling.rate = 0
    /\ instances[lastCall.logger].sampling.levels = <<"error">>
    /\ lastCall.level = "info"
    /\ lastCall.sampled /\ lastCall.lines > 0

\* C17: truncation. With N the length of the message and M the Logger's
\* maxMessageLength, the emitted message is the first M characters and one
\* marker when 0 < M < N, and the message itself when N <= M or M = 0; a
\* child made without a maxMessageLength override has its parent's M.
C17_Truncation ==
    /\ (lastCall.op = "log" /\ lastCall.sampled) =>
          LET N == Len(lastCall.message)
              M == instances[lastCall.logger].maxMessageLength
              out == lastCall.final
          IN
          /\ (0 < M /\ M < N) =>
                /\ Len(out) = M + 1
                /\ \A k \in 1..M : out[k] = lastCall.message[k]
                /\ out[M + 1] = Marker
          /\ (N <= M \/ M = 0) => out = lastCall.message
    /\ \A i \in DOMAIN instances :
          (instances[i].parent # 0 /\ instances[i].overrides.maxMessageLength = <<>>) =>
              instances[i].maxMessageLength
                  = instances[instances[i].parent].maxMessageLength

\* A child made without an override, of a parent with maxMessageLength 2,
\* emitted a message of three characters as two characters and the marker.
C17_Witness ==
    /\ lastCall.op = "log" /\ lastCall.sampled
    /\ instances[lastCall.logger].parent # 0
    /\ instances[lastCall.logger].overrides.maxMessageLength = <<>>
    /\ instances[instances[lastCall.logger].parent].maxMessageLength = 2
    /\ Len(lastCall.message) = 3
    /\ lastCall.final = <<"1", "2", Marker>>

\* The keys of a context object, and the value under a key.
KeysOf(ctx) == {ctx[n].k : n \in DOMAIN ctx}
ValueOf(ctx, key) == {ctx[n].v : n \in {m \in DOMAIN ctx : ctx[m].k = key}}

\* The override tags and context given to child(), none when absent.
OverrideTags(ov) == IF ov.tags = <<>> THEN <<>> ELSE ov.tags[1]
OverrideContext(ov) == IF ov.context = <<>> THEN <<>> ELSE ov.context[1]

\* The state right after child(): the Logger returned has the parent's tags
\* followed by the override tags, the parent's context with the override
\* keys winning, and the level the overrides give or else (no level key, or
\* a level of undefined) the parent's.
ChildInherits ==
    lastCall.op = "child" =>
        LET ch == lastCall.logger
            c == instances[ch]
            p == c.parent
            ovCtx == OverrideContext(c.overrides)
        IN
        /\ TagsOf(ch) = TagsOf(p) \o OverrideTags(c.overrides)
        /\ KeysOf(c.context) = KeysOf(instances[p].context) \cup KeysOf(ovCtx)
        /\ \A key \in KeysOf(ovCtx) : ValueOf(c.context, key) = ValueOf(ovCtx, key)
        /\ \A key \in KeysOf(instances[p].context) \ KeysOf(ovCtx) :
              ValueOf(c.context, key) = ValueOf(instances[p].context, key)
        /\ c.level = IF c.overrides.level \in {"absent", "undef"}
                     THEN instances[p].level
                     ELSE c.overrides.level

\* A step of one Logger (child() counts as a step of the Logger it returns)
\* leaves the tags, context and level of every other Logger as they were.
OthersKeepTagsContextLevel ==
    \A i \in DOMAIN instances :
        lastCall'.logger # i =>
            /\ heap'[instances'[i].tags] = heap[instances[i].tags]
            /\ instances'[i].context = instances[i].context
            /\ instances'[i].level = instances[i].level

\* C18: child(overrides) returns a Logger with the parent's tags followed by
\* the override tags, the parent's context with override keys winning and
\* the parent's level unless overridden; creating it leaves the parent
\* unchanged, and addTag/removeTag/setContext/setLevel on one of the two
\* never changes the tags, context or level of the other.
C18_ChildInheritsAndIsIndependent ==
    []ChildInherits /\ [][OthersKeepTagsContextLevel]_vars

\* A child made without override tags has added a tag of its own: its list
\* now differs from its parent's.
C18_Witness ==
    /\ Len(instances) = 2
    /\ instances[2].parent = 1
    /\ instances[2].overrides.tags = <<>>
    /\ instances[2].overrides.context # <<>>
    /\ lastCall.op = "addTag" /\ lastCall.logger = 2
    /\ lastCall.before = TagsOf(1)
    /\ TagsOf(2) = Append(TagsOf(1), lastCall.tag)

\* No handle or writer is held by two Loggers, and the handle a Logger holds
\* is one its own initFileOutput opened.
NoSharedFile ==
    \A i \in DOMAIN instances :
        /\ instances[i].fileHandle # 0 => openFiles[instances[i].fileHandle].owner = i
        /\ instances[i].fileWriter # 0 => openFiles[instances[i].fileWriter].owner = i
        /\ \A j \in DOMAIN instances \ {i} :
              /\ instances[i].fileHandle # 0 =>
                    instances[i].fileHandle \notin
                        {instances[j].fileHandle, instances[j].fileWriter}
              /\ instances[i].fileWriter # 0 =>
                    instances[i].fileWriter \notin
                        {instances[j].fileHandle, instances[j].fileWriter}

\* The state right after child() of a Logger with file output: the child
\* holds no handle yet, its own open is pending, and its own timer runs
\* when rotation by time is configured.
ChildStartsOwnFile ==
    (lastCall.op = "child" /\ instances[instances[lastCall.logger].parent].file) =>
        LET c == instances[lastCall.logger] IN
        /\ c.file
        /\ c.opening
        /\ c.fileHandle = 0 /\ c.fileWriter = 0
        /\ c.timerId = c.timeRotate

\* close() of one Logger, up to and after its await, leaves the handle,
\* writer, timer and open files of every other Logger as they were.
CloseTouchesOnlyOwn ==
    lastCall'.op \in {"close", "closed"} =>
        \A i \in DOMAIN instances :
            lastCall'.logger # i =>
                /\ instances'[i].fileHandle = instances[i].fileHandle
                /\ instances'[i].fileWriter = instances[i].fileWriter
                /\ instances'[i].timerId = instances[i].timerId
                /\ \A n \in DOMAIN openFiles :
                      openFiles[n].owner = i => openFiles'[n] = openFiles[n]

\* C19: a child of a Logger with file output opens its own handle and starts
\* its own rotation timer; parent and child share no handle or writer, and
\* close() on either closes only its own handle and cancels only its own timer.
C19_ChildOwnsItsFile ==
    [](NoSharedFile /\ ChildStartsOwnFile) /\ [][CloseTouchesOnlyOwn]_vars

\* Parent and child both opened the file; the parent's close has completed
\* and the child still holds its open handle and its running timer.
C19_Witness ==
    /\ Len(instances) = 2
    /\ lastCall.op = "closed" /\ lastCall.logger = 1
    /\ instances[1].fileHandle = 0
    /\ ~instances[1].timerId
    /\ \E n \in DOMAIN openFiles : openFiles[n].owner = 1 /\ ~openFiles[n].fd
    /\ instances[2].fileHandle # 0
    /\ instances[2].fileWriter # 0
    /\ openFiles[instances[2].fileHandle].fd
    /\ instances[2].timerId

Occurrences(arr, x) == Cardinality({n \in DOMAIN arr : arr[n] = x})

\* addTag(x) on a list without x, followed at once by addTag(x) on the same
\* Logger: the list is the one before the first call with x appended once.
AddTagTwice ==
    (/\ lastCall.op = "addTag"
     /\ lastCall.tag \notin Range(lastCall.before)
     /\ lastCall'.op = "addTag"
     /\ lastCall'.logger = lastCall.logger
     /\ lastCall'.tag = lastCall.tag) =>
        /\ Occurrences(heap'[instances'[lastCall.logger].tags], lastCall.tag) = 1
        /\ heap'[instances'[lastCall.logger].tags] = Append(lastCall.before, lastCall.tag)

\* The state right after removeTag(y) on a list without y: the list is
\* unchanged.
RemoveAbsentTag ==
    (lastCall.op = "removeTag" /\ lastCall.tag \notin Range(lastCall.before)) =>
        TagsOf(lastCall.logger) = lastCall.before

\* C20: on a Logger whose tag list lacks x, addTag(x) twice leaves exactly
\* one x, after the other tags in their previous order; removeTag(y) of an
\* absent y leaves the list unchanged.
C20_AddTagIdempotent ==
    [][AddTagTwice]_vars /\ []RemoveAbsentTag

\* The second addTag of a tag that the first one appended to a non-empty
\* list: nothing was added.
C20_Witness ==
    /\ lastCall.op = "addTag"
    /\ Len(lastCall.before) = 2
    /\ lastCall.before[2] = lastCall.tag
    /\ Occurrences(lastCall.before, lastCall.tag) = 1
    /\ TagsOf(lastCall.logger) = lastCall.before

\* The tracker of the Logger the last performance operation acted on.
TrackerOf(i) == instances[i].performanceData

\* The state right after startPerformance: an id is returned and tracked;
\* at capacity exactly the earliest-started timer of the tracker is gone,
\* below capacity none is.
StartEvictsOldestOnly ==
    lastPerf.op = "start" =>
        LET pd == TrackerOf(lastPerf.logger)
            b == lastPerf.before
        IN
        /\ lastPerf.id # 0
        /\ lastPerf.id \in Range(pd)
        /\ IF Len(b) >= MAX_PERFORMANCE_ENTRIES
           THEN /\ lastPerf.evicted # <<>>
                /\ lastPerf.evicted[1] \in Range(b)
                /\ \A x \in Range(b) : lastPerf.evicted[1] <= x
                /\ Range(pd) = (Range(b) \ {lastPerf.evicted[1]}) \cup {lastPerf.id}
                /\ Len(pd) = Len(b)
           ELSE pd = Append(b, lastPerf.id)

\* The state right after endPerformance: the evicted id is a miss reported
\* as not found, an id that was in the tracker is a hit.
EvictedIsMissOthersValid ==
    lastPerf.op = "end" =>
        /\ (lastPerf.evicted # <<>> /\ lastPerf.id = lastPerf.evicted[1]) =>
              /\ ~lastPerf.hit
              /\ lastCall.level = "warn"
              /\ lastCall.message = NotFoundMessage(lastPerf.id)
        /\ lastPerf.id \in Range(lastPerf.before) =>
              /\ lastPerf.hit
              /\ lastCall.message = PerformanceMessage

\* C21: eviction of performance timers is FIFO: at capacity startPerformance
\* evicts exactly the earliest-started timer still present, whose id is then
\* a miss for endPerformance (reported as not found), while the new timer
\* and the other present timers stay valid; startPerformance always returns
\* an id.
C21_FifoEviction == StartEvictsOldestOnly /\ EvictedIsMissOthersValid

\* endPerformance was given the id a start at capacity had evicted, and the
\* tracker, full again, holds the timer that start added.
C21_Witness ==
    /\ lastPerf.op = "end"
    /\ lastPerf.evicted = <<1>>
    /\ lastPerf.id = 1
    /\ ~lastPerf.hit
    /\ Len(TrackerOf(1)) = MAX_PERFORMANCE_ENTRIES
    /\ Head(TrackerOf(1)) = 2
    /\ MAX_PERFORMANCE_ENTRIES + 1 \in Range(TrackerOf(1))

\* The state right after endPerformance(id, level): one level-method call
\* was made; on a miss it is a warn and the tracker is as before, on a hit
\* it has the requested level and the tracker lost exactly that id.
EndPerformanceEffect ==
    lastPerf.op = "end" =>
        LET pd == TrackerOf(lastPerf.logger)
            b == lastPerf.before
        IN
        /\ Len(emitted) = lastPerf.calls + 1
        /\ emitted[Len(emitted)].logger = lastPerf.logger
        /\ IF lastPerf.id \in Range(b)
           THEN /\ emitted[Len(emitted)].level = lastPerf.level
                /\ pd = SelectSeq(b, LAMBDA x : x # lastPerf.id)
                /\ Len(pd) = Len(b) - 1
                /\ lastPerf.id \notin Range(pd)
           ELSE /\ emitted[Len(emitted)].level = "warn"
                /\ pd = b

\* endPerformance of an id right after an endPerformance that found it.
SecondEndIsMiss ==
    (/\ lastPerf.op = "end" /\ lastPerf.hit
     /\ lastPerf'.op = "end"
     /\ lastPerf'.logger = lastPerf.logger
     /\ lastPerf'.id = lastPerf.id) =>
        /\ ~lastPerf'.hit
        /\ emitted'[Len(emitted')].level = "warn"

\* C22: endPerformance of an id that is not in the tracker makes exactly one
\* warn-level log call and leaves the tracker unchanged; endPerformance of a
\* present id makes one log call at the requested level and removes exactly
\* that id, so a second endPerformance of it is a miss.
C22_EndPerformance == []EndPerformanceEffect /\ [][SecondEndIsMiss]_vars

\* The newest timer was ended at debug and then ended again: the second
\* call warned and changed nothing.
C22_Witness ==
    /\ lastPerf.op = "end"
    /\ ~lastPerf.hit
    /\ lastPerf.id = instances[1].issued
    /\ lastPerf.id # 0
    /\ Len(emitted) = 2
    /\ emitted[1].level = "debug"
    /\ emitted[2].level = "warn"
    /\ TrackerOf(1) = lastPerf.before

\* The calls of wrapped functions that returned a value that is no
\* awaitable, or threw.
SyncWraps == {w \in DOMAIN wraps : wraps[w].result \in {"value", "throw"}}

\* The level the wrapper ends the timer with: error when the function threw.
WrapEndLevel(w) == IF wraps[w].result = "throw" THEN "error" ELSE wraps[w].level

C24_AsyncOutcome ==
    \A w \in DOMAIN wraps :
        IsAwaitable(wraps[w].result) =>
            /\ \A k \in DOMAIN wraps[w].ends :
                  /\ wraps[w].ends[k].settled
                  /\ wraps[w].ends[k].level = wraps[w].level
                  /\ wraps[w].ends[k].logged = wraps[w].level
            /\ wraps[w].state = "pending" => wraps[w].ends = <<>>
            /\ wraps[w].state \in {"fulfilled", "rejected"} =>
                  /\ Len(wraps[w].ends) = 1
                  /\ wraps[w].observed = wraps[w].state

\* The tasks that wait for the file system or for the file's stream.
FileWaits == {"open", "rename", "stat", "write", "closeWait"}

\* C25: a file path with ".." is refused without failing construction: the
\* Logger is usable, the refusal is reported on the real console, and never
\* in the Logger's life, rotation attempts of the timer and of the size
\* check included, is a handle opened or a file renamed for it; console and
\* custom sink keep working.
C25_RefusedPathDisablesFile ==
    ~cfg.pathOk =>
        /\ tasks[1].pc = "done" /\ tasks[1].outcome = "returned"
        /\ <<1, "path">> \in errs
        /\ ConsoleForOutput["error"].kind = "native"
        /\ handles = <<>> /\ inodes = <<>>
        /\ fileHandle = 0 /\ fileWriter = 0 /\ ~filePath
        /\ \A i \in DOMAIN dir : dir[i] = 0
        /\ rotations = 0
        /\ \A t \in DOMAIN tasks : tasks[t].pc \notin FileWaits
        /\ \A t \in LogTasks :
              /\ tasks[t].outcome = "returned"
              /\ "file" \notin tasks[t].att
              /\ (tasks[t].passed /\ cfg.console) => InSeq(t, consoleOut)
              /\ (tasks[t].passed /\ cfg.custom) => InSeq(t, customOut)

\* On a refused path, with the console redirected, the timer has fired, two
\* calls were written to console and custom sink, and close() has returned.
C25_Witness ==
    /\ ~cfg.pathOk /\ cfg.console /\ cfg.custom
    /\ originalConsole # <<>>
    /\ NumTasks("timer") = 1
    /\ NumTasks("close") = 1
    /\ NumTasks("log") = 2
    /\ \A t \in DOMAIN tasks : tasks[t].pc = "done"
    /\ Len(consoleOut) = 2 /\ Len(customOut) = 2
    /\ ~timerId

\* The routing auto mode gives a Logger constructed with the output `g`
\* (g.tty is isTTY() at construction).
AutoRouting(g) ==
    IF g.tty
    THEN [console |-> TRUE, file |-> FALSE, path |-> "", custom |-> g.custom]
    ELSE [console |-> FALSE, file |-> TRUE,
          path |-> IF g.file THEN g.path ELSE "./logs/app.log", custom |-> g.custom]

RoutingOf(i) ==
    [console |-> instances[i].console, file |-> instances[i].file,
     path |-> instances[i].path, custom |-> instances[i].custom]

\* Call k waits for its file write: its custom branch has not run yet.
WritePending(k) ==
    \E h \in DOMAIN openFiles :
        \E n \in DOMAIN openFiles[h].queue : openFiles[h].queue[n].call = k

\* Every Logger in auto mode routes as the TTY state at its construction
\* says, whatever isTTY() is now, never to console and file both, and every
\* call it made was written accordingly (to the custom sink once its file
\* write is over).
AutoRoutingHolds ==
    /\ \A i \in DOMAIN instances :
          instances[i].given.auto =>
              /\ RoutingOf(i) = AutoRouting(instances[i].given)
              /\ ~(instances[i].console /\ instances[i].file)
    /\ \A k \in DOMAIN emitted :
          LET g == instances[emitted[k].logger].given IN
          g.auto =>
              /\ ~(emitted[k].console # <<>> /\ emitted[k].file # <<>>)
              /\ g.tty => (emitted[k].console # <<>> /\ emitted[k].file = <<>>)
              /\ ~g.tty => emitted[k].console = <<>>
              /\ (emitted[k].custom # <<>>) = (g.custom /\ ~WritePending(k))

\* No step changes the routing of a Logger that exists.
RoutingIsFixed ==
    \A i \in DOMAIN instances : RoutingOf(i)' = RoutingOf(i)

\* C26: auto output mode is resolved once, at construction, from the TTY
\* state: console only when interactive, file only (configured path or
\* ./logs/app.log) when not; the custom sink is kept, console and file are
\* never both active, and a later change of the TTY state does not change
\* the routing of the Logger.
C26_AutoResolvedOnce == []AutoRoutingHolds /\ [][RoutingIsFixed]_vars

\* A Logger made in auto mode without a terminal and without a file config
\* wrote a call to the default path and to the custom sink, not to the
\* console, after the process got a terminal.
C26_Witness ==
    /\ instances[1].given.auto /\ ~instances[1].given.tty /\ instances[1].tty
    /\ ~instances[1].given.file /\ instances[1].given.console
    /\ instances[1].given.custom
    /\ instances[1].path = DEFAULT_AUTO_FILE_PATH
    /\ lastCall.op = "write" /\ lastCall.logger = 1
    /\ emitted[Len(emitted)].logger = 1
    /\ emitted[Len(emitted)].file # <<>>
    /\ emitted[Len(emitted)].custom # <<>>
    /\ emitted[Len(emitted)].console = <<>>

\* C27: with NO_COLOR set and no color given in the configuration, what the
\* Logger writes to the console and to the custom sink is never colorized,
\* whatever the format and the TTY state.
C27_NoColorEnv ==
    \A k \in DOMAIN emitted :
        LET c == instances[emitted[k].logger] IN
        (c.noColor /\ ~c.colorGiven) =>
            /\ \A n \in DOMAIN emitted[k].console : ~HasAnsi(emitted[k].console[n])
            /\ \A n \in DOMAIN emitted[k].custom : ~HasAnsi(emitted[k].custom[n])

(***************************************************************************)
(* Arguments of a redirected console call                                  *)
(***************************************************************************)
MaxArgs == 3

\* The values a console method is called with: typeof, and the literal
\* that denotes the value in the program text.
JsUndefined == [type |-> "undefined", v |-> "undefined"]
JsValues ==
    {[type |-> "string", v |-> "hello"], [type |-> "string", v |-> ""],
     [type |-> "number", v |-> "1.0"], [type |-> "boolean", v |-> "true"],
     JsUndefined, [type |-> "null", v |-> "null"],
     [type |-> "object", v |-> "{foo:1}"]}

\* String(value)
JsString(x) ==
    CASE x.type = "string" -> x.v
      [] x.type = "number" -> IF x.v = "1.0" THEN "1" ELSE x.v
      [] x.type = "boolean" -> x.v
      [] x.type = "undefined" -> "undefined"
      [] x.type = "null" -> "null"
      [] OTHER -> "[object Object]"

\* args.slice(1)
Slice1(args) == [type |-> "array", v |-> SubSeq(args, 2, Len(args))]

FormatConsoleArgsRest(args) ==
    IF Len(args) = 0 THEN [message |-> "", data |-> JsUndefined]
    ELSE LET first == args[1]
             message == IF first.type = "string" THEN first.v ELSE JsString(first)
         IN IF Len(args) = 1 THEN [message |-> message, data |-> JsUndefined]
            ELSE [message |-> message, data |-> Slice1(args)]

\* formatConsoleArgs
FormatConsoleArgs(args) ==
    IF Len(args) = 0 THEN [message |-> "", data |-> JsUndefined]
    ELSE LET first == args[1]
             message == IF first.type = "string" THEN first.v ELSE JsString(first)
         IN IF Len(args) = 1 THEN [message |-> message, data |-> JsUndefined]
            ELSE IF Len(args) = 2 THEN [message |-> message, data |-> args[2]]
            ELSE [message |-> message, data |-> Slice1(args)]

ArgLists == UNION {[1..n -> JsValues] : n \in 0..MaxArgs}

\* A console method is about to be called with some arguments.
InitArgs ==
    /\ RedirectIdle /\ LoggerIdle /\ InstancesIdle
    /\ wraps = <<>> /\ lastPerf = NoPerf
    /\ \E args \in ArgLists :
          conv = [args |-> args, applied |-> FALSE, message |-> "", data |-> JsUndefined]

\* const [message, data] = formatConsoleArgs(args)
Convert ==
    /\ ~conv.applied
    /\ LET r == FormatConsoleArgs(conv.args) IN
       conv' = [conv EXCEPT !.applied = TRUE, !.message = r.message, !.data = r.data]
    /\ UNCHANGED <<rvars, lvars, ivars, wraps, lastPerf>>

NextArgs == Convert

SpecArgs == InitArgs /\ [][NextArgs]_vars

\* C28: a redirected console call is converted to (message, data): the
\* message is the first argument, stringified when it is not a string and ""
\* when there is none; data is absent for zero or one argument, the second
\* argument itself for exactly two, and the list of all arguments after the
\* first for three or more.
C28_ConsoleArgsConversion ==
    conv.applied =>
        LET args == conv.args
            n == Len(args)
        IN /\ n = 0 => conv.message = ""
           /\ (n >= 1 /\ args[1].type = "string") => conv.message = args[1].v
           /\ (n >= 1 /\ args[1].type # "string") => conv.message = JsString(args[1])
           /\ n <= 1 => conv.data = JsUndefined
           /\ n = 2 => conv.data = args[2]
           /\ n >= 3 => /\ conv.data.type = "array"
                        /\ Len(conv.data.v) = n - 1
                        /\ \A j \in 1..(n - 1) : conv.data.v[j] = args[j + 1]

\* console.log(1.0, "hello", { foo: 1 }) was converted: the message is "1" and
\* data is the list of the other two arguments.
C28_Witness ==
    /\ conv.applied
    /\ Len(conv.args) = 3
    /\ conv.args[1] = [type |-> "number", v |-> "1.0"]
    /\ conv.message = "1"
    /\ conv.data = [type |-> "array",
                    v |-> <<[type |-> "string", v |-> "hello"],
                            [type |-> "object", v |-> "{foo:1}"]>>]

\* The handles of the Logger that are open.
OpenHandles == {h \in DOMAIN handles : handles[h].fd}

\* C29: at most one file handle opened by the Logger is open at any time,
\* under every interleaving of log calls, size rotations, timer rotations
\* and close(); no handle is open that the Logger no longer refers to.
C29_AtMostOneOpenHandle ==
    /\ Cardinality(OpenHandles) <= 1
    /\ \A h \in OpenHandles : fileHandle = h

\* Task t completes the rename of the active file to <path>.1.
RenamesActive(t) ==
    /\ tasks[t].pc = "rename" /\ tasks[t].i = 0
    /\ tasks'[t].pc = "open"

\* The Logger holds no writer and no handle, and no open handle is on the
\* file the active path names.
NothingOpenOnActivePath ==
    /\ fileWriter = 0 /\ fileHandle = 0
    /\ \A h \in OpenHandles : dir[0] = 0 \/ handles[h].inode # dir[0]

\* C30: close before rename: whenever the Logger renames its active file to
\* <path>.1 it has no open writer or handle on the active path, and the new
\* handle is opened only after that rename has finished, also when
\* rotations overlap.
C30_CloseBeforeRename ==
    [][\A t \in DOMAIN tasks : RenamesActive(t) => NothingOpenOnActivePath]_vars

\* Task t is a rotateLog that has passed its filePath check.
InRotation(t) ==
    tasks[t].kind \in {"log", "timer"} /\ tasks[t].pc \in {"closeWait", "rename"}

\* A rotateLog that has started goes on to its renames and from there to
\* the open of initFileOutput; it never returns before.
RotationReachesOpen ==
    \A t \in DOMAIN tasks' :
        /\ (/\ rotations' = rotations + 1
            /\ t \notin DOMAIN tasks \/ (tasks[t].pc = "stat" /\ tasks'[t].pc # "stat"))
              => tasks'[t].pc \in {"closeWait", "rename"}
        /\ (t \in DOMAIN tasks /\ InRotation(t) /\ tasks'[t].pc # tasks[t].pc)
              => tasks'[t].pc \in {"rename", "open"}

\* The open that ends a rotation succeeded: the Logger holds an open writer
\* on the file the active path names.
ReopenGivesWriter ==
    \A t \in DOMAIN tasks :
        (/\ tasks[t].kind \in {"log", "timer"} /\ tasks[t].pc = "open"
         /\ tasks'[t].pc # "open" /\ "open" \notin tasks'[t].failed)
        => /\ fileWriter' # 0 /\ fileHandle' = fileWriter'
           /\ handles'[fileWriter'].fd /\ handles'[fileWriter'].wstate = "open"
           /\ dir'[0] # 0 /\ handles'[fileWriter'].inode = dir'[0]

\* A log call made while the Logger holds an open writer is issued to it.
CallGoesToWriter ==
    (/\ Len(tasks') = Len(tasks) + 1
     /\ tasks'[Len(tasks')].kind = "log" /\ tasks'[Len(tasks')].passed
     /\ fileWriter # 0 /\ handles[fileWriter].wstate = "open")
    => /\ tasks'[Len(tasks')].pc = "write"
       /\ handles'[fileWriter].queue = Append(handles[fileWriter].queue, Len(tasks'))

\* C31: every rotation of a Logger whose file was opened once ends with an
\* attempt to reopen the active file, whether the renames succeeded or
\* failed; after a reopen that succeeds the Logger has an open writer on
\* the active path and later log calls are written to it.
C31_RotationReopens ==
    [][RotationReachesOpen /\ ReopenGivesWriter /\ CallGoesToWriter]_vars

\* A rotation whose rename of the active file failed has reopened the file,
\* and a log call made after it has its line in the active file.
C31_Witness ==
    \E t, u \in DOMAIN tasks :
        /\ tasks[t].kind \in {"log", "timer"} /\ "rotate" \in tasks[t].failed
        /\ tasks[t].pc = "done" /\ "open" \notin tasks[t].failed
        /\ u > t /\ tasks[u].kind = "log" /\ tasks[u].appended = 1
        /\ dir[0] # 0 /\ \E n \in DOMAIN inodes[dir[0]] : inodes[dir[0]][n] = u

\* An open of the file has failed and the Logger holds no writer since.
FileInactiveAfterFailure ==
    /\ fileWriter = 0
    /\ \E t \in DOMAIN tasks : "open" \in tasks[t].failed

\* Task t is a rotation attempt made in this step: the timer callback
\* calls rotateLog, or the size check finds the file at its limit.
AttemptsRotation(t) ==
    \/ /\ t \notin DOMAIN tasks /\ tasks'[t].kind = "timer"
       /\ cfg.rotate /\ IncludesTime(cfg.strategy)
    \/ /\ t \in DOMAIN tasks /\ tasks[t].pc = "stat" /\ tasks'[t].pc # "stat"
       /\ dir[0] # 0 /\ Len(inodes[dir[0]]) >= cfg.maxSize

\* A failed open leaves the Logger without writer, the console line of a
\* later call is still written, and a rotation attempt made while the file
\* output is inactive goes on to open the file.
OpenRetry ==
    /\ \A t \in DOMAIN tasks :
          (tasks[t].pc = "open" /\ "open" \in tasks'[t].failed) => fileWriter' = 0
    /\ (/\ FileInactiveAfterFailure /\ Len(tasks') = Len(tasks) + 1
        /\ tasks'[Len(tasks')].kind = "log" /\ cfg.console)
       => consoleOut' = Append(consoleOut, Len(tasks'))
    /\ \A t \in DOMAIN tasks' :
          (FileInactiveAfterFailure /\ AttemptsRotation(t))
              => tasks'[t].pc \in {"closeWait", "rename", "open"}

\* C32: after a file open has failed (the first open of the constructor
\* included) file output stays inactive without affecting the other
\* targets, and the next rotation attempt, by timer or by size, retries
\* the open.
C32_OpenRetry == [][OpenRetry]_vars

\* close() has been called.
CloseCalled == NumTasks("close") > 0

\* The timer handle is kept while close() has not been called; no callback
\* of the timer begins once it has.
TimerUntilClose ==
    /\ (timerId /\ ~CloseCalled') => timerId'
    /\ (NumTasks("timer")' > NumTasks("timer")) => (timerId /\ ~CloseCalled)

\* C33: close() cancels the time-rotation timer: the handle started at
\* construction is retained until close(); after close() has been called
\* the handle is cleared and no timer-triggered rotation is started.
C33_CloseCancelsTimer ==
    /\ [](CloseCalled => ~timerId)
    /\ [][TimerUntilClose]_vars

\* A Logger rotating by time was closed before its timer fired, the file
\* open: the handle is cleared.
C33_Witness ==
    /\ cfg.rotate /\ IncludesTime(cfg.strategy)
    /\ CloseCalled /\ closeResolved /\ ~timerId
    /\ NumTasks("timer") = 0 /\ handles # <<>>

SizeStrategies == {"none", "size", "size-time"}
TimeStrategies == {"time", "size-time"}

\* The timer runs, until close(), exactly under a strategy with "time" and
\* rotation enabled; a size check is pending only under a strategy with
\* "size" (or none) and rotation enabled.
TriggersByStrategy ==
    /\ ~CloseCalled => (timerId = (cfg.rotate /\ cfg.strategy \in TimeStrategies))
    /\ \A t \in DOMAIN tasks :
          tasks[t].pc = "stat" => (cfg.rotate /\ cfg.strategy \in SizeStrategies)
    /\ rotations > 0 => cfg.rotate

\* What a step may do about rotation: a written line is followed by the
\* size check exactly under a size strategy; the size check starts a
\* rotation iff the file has reached maxSize; a rotation is started by
\* the size check or by the timer, each only under its strategies.
RotationTriggers ==
    /\ \A t \in DOMAIN tasks :
          (tasks[t].pc = "write" /\ tasks'[t].appended = tasks[t].appended + 1)
          => ((tasks'[t].pc = "stat") = (cfg.rotate /\ cfg.strategy \in SizeStrategies))
    /\ \A t \in DOMAIN tasks :
          (tasks[t].pc = "stat" /\ tasks'[t].pc # "stat" /\ dir[0] # 0)
          => ((tasks'[t].pc \in {"closeWait", "rename"} /\ rotations' = rotations + 1)
                 = (Len(inodes[dir[0]]) >= cfg.maxSize))
    /\ (rotations' # rotations) =>
          \E t \in DOMAIN tasks' :
             /\ tasks'[t].pc \in {"closeWait", "rename"}
             /\ \/ /\ t \in DOMAIN tasks /\ tasks[t].pc = "stat"
                   /\ cfg.strategy \in SizeStrategies
                \/ /\ t \notin DOMAIN tasks /\ tasks'[t].kind = "timer"
                   /\ cfg.strategy \in TimeStrategies

\* C34: with rotation enabled, under "size" (or no strategy) only the size
\* check after a write can start a rotation and no timer runs; under
\* "time" only the timer can and no size check is made; under "size-time"
\* both; with rotation disabled neither. The size check starts a rotation
\* iff the file size is >= maxSize.
C34_TriggersByStrategy == []TriggersByStrategy /\ [][RotationTriggers]_vars

\* Under "time" with a limit of one line a line was written, no size check
\* was made, and the only rotation is the timer's.
C34_Witness ==
    /\ cfg.rotate /\ cfg.strategy = "time" /\ cfg.maxSize = 1
    /\ rotations = 1
    /\ \E t, u \in DOMAIN tasks :
          /\ tasks[t].kind = "log" /\ tasks[t].appended = 1 /\ tasks[t].pc = "done"
          /\ tasks[u].kind = "timer" /\ tasks[u].pc = "done" /\ u > t

\* C35: file write order: of two log calls A then B of the Logger that are
\* both written through the same writer, A's line precedes B's line in the
\* file (a line is the number of its call; calls are numbered in call
\* order).
C35_FileWriteOrder ==
    \A ino \in DOMAIN inodes :
        \A m, n \in DOMAIN inodes[ino] :
            (m < n /\ tasks[inodes[ino][m]].h = tasks[inodes[ino][n]].h)
                => inodes[ino][m] < inodes[ino][n]

\* Two calls were written through one writer, the second made while the
\* write of the first was still pending.
C35_Witness ==
    \E ino \in DOMAIN inodes :
        /\ Len(inodes[ino]) = 2
        /\ tasks[inodes[ino][1]].h = tasks[inodes[ino][2]].h
        /\ tasks[inodes[ino][1]].h # 0
        /\ tasks[inodes[ino][2]].hadWriter

\* C36: bounded tracker: whatever timers are started, ended or left running
\* by the application and by wrapped functions, a Logger never holds more
\* than 1000 timer records.
C36_BoundedTracker ==
    \A i \in DOMAIN instances : Len(instances[i].performanceData) <= 1000

\* A full tracker took another timer, none was ended: it still holds 1000,
\* the oldest one gone.
C36_Witness ==
    /\ lastPerf.op = "start" /\ Len(lastPerf.before) = 1000
    /\ Len(instances[lastPerf.logger].performanceData) = 1000
    /\ lastPerf.evicted = <<Head(lastPerf.before)>>
    /\ instances[lastPerf.logger].performanceData[1000] = lastPerf.id

\* The entry of the most recent call has a tag in excludeTags of filter f.
HasExcluded(f) == Range(lastCall.merged) \cap Range(f.excludeTags) # {}

\* includeTags of f is not empty and the entry has none of its tags.
MissesIncluded(f) ==
    /\ Range(f.includeTags) # {}
    /\ Range(lastCall.merged) \cap Range(f.includeTags) = {}

\* C37: filter precedence: with no filter every entry passes; the exclude
\* check rejects first, the include check next, neither calling the custom
\* predicate; the predicate is called only for entries that passed both
\* tag checks, with the merged entry and its untruncated message, and its
\* result is the result of the filter.
C37_FilterPrecedence ==
    GatedCall =>
        LET f == instances[lastCall.logger].filter IN
        /\ ~f.present => (lastCall.filter /\ lastCall.custom = <<>>)
        /\ (f.present /\ (HasExcluded(f) \/ MissesIncluded(f)))
              => (~lastCall.filter /\ lastCall.custom = <<>>)
        /\ (f.present /\ ~HasExcluded(f) /\ ~MissesIncluded(f) /\ f.custom = "none")
              => (lastCall.filter /\ lastCall.custom = <<>>)
        /\ (f.present /\ ~HasExcluded(f) /\ ~MissesIncluded(f) /\ f.custom # "none")
              => /\ Len(lastCall.custom) = 1
                 /\ lastCall.custom[1].message = lastCall.message
                 /\ lastCall.custom[1].tags = lastCall.merged
                 /\ lastCall.filter = CustomPredicate(f.custom, lastCall.custom[1])

\* An entry that passed both tag checks was given to a predicate on the
\* length of the message; it passed on its three characters although the
\* line written holds one and the marker.
C37_Witness ==
    /\ GatedCall /\ lastCall.filter
    /\ instances[lastCall.logger].filter.custom = "long"
    /\ instances[lastCall.logger].filter.includeTags = <<"api">>
    /\ instances[lastCall.logger].filter.excludeTags = <<"internal">>
    /\ lastCall.merged = <<"api">>
    /\ Len(lastCall.message) = 3 /\ Len(lastCall.final) = 2
    /\ lastCall.lines > 0

\* The lookup sets of every Logger hold the tags of its filter's lists.
SetsMatchFilter ==
    \A i \in DOMAIN instances :
        /\ Range(instances[i].includeTagsSet) = Range(instances[i].filter.includeTags)
        /\ Range(instances[i].excludeTagsSet) = Range(instances[i].filter.excludeTags)

\* C38: after the constructor and after every setFilter(f) the lookup sets
\* equal the sets of f's includeTags and excludeTags, getFilter returns f,
\* and every later call is tag-filtered by the filter set most recently.
C38_SetFilterTakesEffect ==
    /\ SetsMatchFilter
    /\ lastCall.op = "setFilter" => GetFilter(lastCall.logger) = lastCall.set[1]
    /\ (GatedCall /\ GetFilter(lastCall.logger).custom = "none")
          => LET f == GetFilter(lastCall.logger) IN
             lastCall.filter = (~f.present \/ (~HasExcluded(f) /\ ~MissesIncluded(f)))

\* Of two calls of one Logger the first was written and the second, after
\* a setFilter that excludes a tag of the Logger, was not.
C38_Witness ==
    /\ Len(emitted) = 2
    /\ emitted[1].console # <<>> /\ emitted[2].console = <<>>
    /\ GatedCall /\ ~lastCall.filter
    /\ GetFilter(lastCall.logger).custom = "none"
    /\ GetFilter(lastCall.logger).includeTags = <<>>
    /\ GetFilter(lastCall.logger).excludeTags = <<"internal">>
    /\ instances[lastCall.logger].excludeTagsSet = <<"internal">>

\* C39: after removeTag(x) has returned the tag list of the Logger holds no
\* occurrence of x, whatever tags the Logger was constructed with and
\* whatever child(), addTag and removeTag did before.
C39_RemoveTagRemovesAll ==
    lastCall.op = "removeTag" => lastCall.tag \notin Range(TagsOf(lastCall.logger))

\* The step is a level-method call that is accepted and whose console
\* write does not fail.
AcceptedConsoleCall ==
    /\ Len(tasks') = Len(tasks) + 1
    /\ tasks'[Len(tasks')].kind = "log" /\ tasks'[Len(tasks')].passed
    /\ cfg.console /\ "console" \notin tasks'[Len(tasks')].failed

\* The console line of an accepted call is written in the step of the call
\* itself, after the lines there are; no other step writes to the console.
ConsoleLineInCall ==
    IF AcceptedConsoleCall
    THEN consoleOut' = Append(consoleOut, Len(tasks'))
    ELSE consoleOut' = consoleOut

\* C40: console output order: with console output enabled the console line
\* of each accepted call is written before the logging method returns, so
\* the console lines are in call order under every interleaving of the
\* file and custom-sink work of earlier calls.
C40_ConsoleOrder ==
    /\ [][ConsoleLineInCall]_vars
    /\ [](\A m, n \in DOMAIN consoleOut : m < n => consoleOut[m] < consoleOut[n])

\* Two calls have their console lines in call order while the file write of
\* the first is still pending.
C40_Witness ==
    /\ Len(consoleOut) = 2 /\ consoleOut[1] < consoleOut[2]
    /\ tasks[consoleOut[1]].pc = "write"
    /\ cfg.file

====
